---- MODULE Spec2Model ----
(***************************************************************************)
(* Red-Black-Predictor: a verification model of the three predictor        *)
(* programs of the repository.                                             *)
(*                                                                         *)
(*   sp_ : src/unnamed/part_002  sportypredictor.cjs (5-slot R/B/G CLI)    *)
(*   iv_ : src/unnamed/part_001  iv-redblack-advanced.cjs (live + logreg)  *)
(*   rb_ : src/index.cjs         redblack_predictor_fixed.cjs (monitor)    *)
(*                                                                         *)
(* JavaScript numbers are modelled as exact non-negative rationals.  A     *)
(* natural number is a little-endian sequence of limbs in base BASE with   *)
(* no leading zero limb (so equal numbers are equal sequences); a vector   *)
(* of rationals over an alphabet is a record [n |-> numerators, d |->      *)
(* common denominator].                                                    *)
(***************************************************************************)
EXTENDS Integers, Sequences, FiniteSets, TLC

VARIABLES
  prog,        \* which of the three scripts is run: "sp", "iv" or "rb"
  sp_running,  \* sportypredictor: runCLI is reading commands
  sp_history,  \* runCLI's `history`
  sp_file,     \* sporty_history.json
  sp_W,        \* W_SLOT, W_MARKOV, W_PATTERN, W_STREAK
  sp_wfile,    \* weights.json
  sp_out,      \* the last command line and what it printed
  sp_job,      \* the loop of evaluate or tune the command handler is in, and its locals
  fails,       \* file writes that have failed so far in this run
  iv_scraping, \* iv-redblack-advanced: runScrapeAndPredictLoop is in its loop
  iv_file,     \* rb_history.json
  iv_now,      \* Date.now(), in milliseconds
  iv_model,    \* the loop's `model`
  iv_second,   \* a loop started by a second scrape command, and its `model`
  iv_lastPick, \* lastPick ("" for null)
  iv_totalPred,
  iv_correctPred,
  iv_recent,   \* recentPredictions
  iv_out,      \* the last command or loop pass and what it printed
  rb_started,  \* redblack_predictor_fixed: start() has loaded the outcomes
  rb_file,     \* rb_outcomes.json
  rb_outcomesList,
  rb_model,    \* marg, trans and lastOutcome ("" for null)
  rb_lastSeenRawText,
  rb_prevPrediction,  \* "" for null
  rb_totalPred,
  rb_correctPred,
  rb_recent,
  rb_seen,     \* outcomes observed in this run
  rb_out       \* what the last pass of monitorLoop printed

sp_vars == <<sp_running, sp_history, sp_file, sp_W, sp_wfile, sp_out, sp_job>>
iv_vars == <<iv_scraping, iv_file, iv_now, iv_model, iv_second, iv_lastPick, iv_totalPred,
             iv_correctPred, iv_recent, iv_out>>
rb_store == <<rb_started, rb_file, rb_outcomesList, rb_model, rb_seen>>
rb_score == <<rb_lastSeenRawText, rb_prevPrediction, rb_totalPred, rb_correctPred, rb_recent,
              rb_out>>
rb_vars == <<rb_store, rb_score>>
vars == <<prog, fails, sp_vars, iv_vars, rb_vars>>

----------------------------------------------------------------------------
(* Exact arithmetic on naturals of any size *)

BASE == 100 * 100

RECURSIVE BFromInt(_)
BFromInt(k) == IF k = 0 THEN <<>> ELSE <<k % BASE>> \o BFromInt(k \div BASE)

BZero == <<>>
BOne == <<1>>

BRest(a) == IF a = <<>> THEN <<>> ELSE Tail(a)
BLow(a) == IF a = <<>> THEN 0 ELSE Head(a)
BShift(a) == IF a = <<>> THEN <<>> ELSE <<0>> \o a

RECURSIVE BAddC(_, _, _)
BAddC(a, b, c) ==
  IF a = <<>> /\ b = <<>> THEN BFromInt(c)
  ELSE IF b = <<>> /\ c = 0 THEN a
  ELSE IF a = <<>> /\ c = 0 THEN b
  ELSE LET x == BLow(a) + BLow(b) + c
       IN  <<x % BASE>> \o BAddC(BRest(a), BRest(b), x \div BASE)

BAdd(a, b) == BAddC(a, b, 0)

(* a * k for a small natural k (k * BASE must stay below 2^31) *)
RECURSIVE BMulC(_, _, _)
BMulC(a, k, c) ==
  IF a = <<>> THEN BFromInt(c)
  ELSE LET x == Head(a) * k + c
       IN  <<x % BASE>> \o BMulC(Tail(a), k, x \div BASE)

BMulSmall(a, k) == IF k = 0 \/ a = <<>> THEN <<>> ELSE BMulC(a, k, 0)

RECURSIVE BMul(_, _)
BMul(a, b) ==
  IF a = <<>> \/ b = <<>> THEN <<>>
  ELSE BAdd(BMulSmall(a, Head(b)), BShift(BMul(a, Tail(b))))

RECURSIVE BPowSmall(_, _)
BPowSmall(k, e) == IF e = 0 THEN BOne ELSE BMulSmall(BPowSmall(k, e - 1), k)

(* -1, 0, 1 as a < b, a = b, a > b *)
RECURSIVE BCmpFrom(_, _, _)
BCmpFrom(a, b, i) ==
  IF i = 0 THEN 0
  ELSE IF a[i] < b[i] THEN -1
  ELSE IF a[i] > b[i] THEN 1
  ELSE BCmpFrom(a, b, i - 1)

BCmp(a, b) ==
  IF Len(a) < Len(b) THEN -1
  ELSE IF Len(a) > Len(b) THEN 1
  ELSE BCmpFrom(a, b, Len(a))

BLe(a, b) == BCmp(a, b) <= 0
BLt(a, b) == BCmp(a, b) < 0
BMin(a, b) == IF BLe(a, b) THEN a ELSE b
BMax(a, b) == IF BLe(a, b) THEN b ELSE a

RECURSIVE BTrim(_)
BTrim(a) ==
  IF a = <<>> THEN <<>>
  ELSE IF a[Len(a)] = 0 THEN BTrim(SubSeq(a, 1, Len(a) - 1))
  ELSE a

(* a - b for a >= b *)
RECURSIVE BSubC(_, _, _)
BSubC(a, b, c) ==
  IF a = <<>> THEN <<>>
  ELSE LET x == Head(a) - BLow(b) - c
       IN  IF x < 0 THEN <<x + BASE>> \o BSubC(Tail(a), BRest(b), 1)
           ELSE <<x>> \o BSubC(Tail(a), BRest(b), 0)

BSub(a, b) == BTrim(BSubC(a, b, 0))

----------------------------------------------------------------------------
(* Vectors of rationals over an alphabet: v.n[o] / v.d *)

Rat(a, b) == [n |-> a, d |-> b]

(* f itself; comparing a function makes TLC tabulate it once instead of *)
(* recomputing an entry at every application                             *)
Eager(f) == CHOOSE g \in {f} : g = g

RECURSIVE BSumSeq(_, _)
BSumSeq(q, k) == IF k = 0 THEN BZero ELSE BAdd(q[k], BSumSeq(q, k - 1))

(* the sum of the entries' numerators, the alphabet given as a sequence *)
VSum(v, alphabet) == BSumSeq([j \in 1..Len(alphabet) |-> v.n[alphabet[j]]], Len(alphabet))

(* every entry NaN: a vector whose entries are 0/0.  A sum, a product, a *)
(* quotient and Math.min of NaN are NaN, and NaN || 1 is 1               *)
VNaN(alphabet) == [n |-> [o \in {alphabet[i] : i \in DOMAIN alphabet} |-> BZero], d |-> BZero]
IsNaN(v) == v.d = BZero

(* the first member of the alphabet gets a + 1 *)
VFirstMore(alphabet, a, b) ==
  [n |-> [o \in {alphabet[j] : j \in 1..Len(alphabet)} |->
            BFromInt(IF o = alphabet[1] THEN a + 1 ELSE a)],
   d |-> BFromInt(b)]

VConst(alphabet, a, b) ==
  [n |-> [o \in {alphabet[j] : j \in 1..Len(alphabet)} |-> BFromInt(a)], d |-> BFromInt(b)]

(* k1/kd * v1 + k2/kd * v2 for small naturals k1, k2, kd *)
VMix(k1, v1, k2, v2, kd) ==
  IF v1.d = v2.d
  THEN [n |-> Eager([o \in DOMAIN v1.n |->
                       BAdd(BMulSmall(v1.n[o], k1), BMulSmall(v2.n[o], k2))]),
        d |-> BMulSmall(v1.d, kd)]
  ELSE [n |-> Eager([o \in DOMAIN v1.n |->
                       BAdd(BMul(BMulSmall(v1.n[o], k1), v2.d),
                            BMul(BMulSmall(v2.n[o], k2), v1.d))]),
        d |-> BMulSmall(BMul(v1.d, v2.d), kd)]

(* v.n[o] / v.d  compared with  a / b *)
VEntryLe(v, o, a, b) == BLe(BMulSmall(v.n[o], b), BMulSmall(v.d, a))
SumsToOne(v, alphabet) == ~IsNaN(v) /\ VSum(v, alphabet) = v.d
InUnit(v) == ~IsNaN(v) /\ \A o \in DOMAIN v.n : BLe(v.n[o], v.d)
IsUniform(v) ==
  ~IsNaN(v) /\ \A o \in DOMAIN v.n : BMulSmall(v.n[o], Cardinality(DOMAIN v.n)) = v.d

----------------------------------------------------------------------------
(* sportypredictor.cjs: configuration *)

sp_OUTCOMES == <<"R", "B", "G">>
sp_O == {sp_OUTCOMES[j] : j \in 1..Len(sp_OUTCOMES)}
GAMES_PER_ROUND == 5
Slots == 1..GAMES_PER_ROUND

sp_ALPHA == Rat(1, 2)
sp_DECAY == Rat(97, 100)
sp_MIX_GLOBAL == Rat(25, 100)
sp_STREAK_WINDOW == 3
sp_STREAK_BONUS == Rat(6, 100)

(* W_SLOT, W_MARKOV, W_PATTERN, W_STREAK as numerators over the common denominator d; *)
(* undef names the weights whose value is undefined                                   *)
Weights(a, b, c, e, den) ==
  [slot |-> a, markov |-> b, pattern |-> c, streak |-> e, d |-> den, undef |-> {}]
sp_DefaultWeights == Weights(50, 35, 12, 3, 100)

(* Math.pow(decay, age) of n entries, age = n - i for the 1-based index i, as *)
(* numerators over the common denominator WeightDen = decay.d^(n-1)           *)
FlatWeights(decay, n) == Eager([i \in 1..n |-> BPowSmall(decay.d, n - 1)])

DecayWeights(decay, n) ==
  Eager([i \in 1..n |-> BMul(BPowSmall(decay.n, n - i), BPowSmall(decay.d, i - 1))])

WeightDen(decay, n) == IF n = 0 THEN BOne ELSE BPowSmall(decay.d, n - 1)

(* recencyWeights(n) *)
recencyWeights(n) == DecayWeights(sp_DECAY, n)

(* normalize(obj): every entry divided by the sum, or by 1 when the sum is 0 *)
normalize(v, alphabet) ==
  LET sum == VSum(v, alphabet)
  IN  IF sum = BZero THEN v ELSE [n |-> v.n, d |-> sum]

(* the sum of the weights w[i] of the indices i in 1..k that lie in I *)
RECURSIVE SumIn(_, _, _)
SumIn(w, I, k) ==
  IF k = 0 THEN BZero
  ELSE BAdd(IF k \in I THEN w[k] ELSE BZero, SumIn(w, I, k - 1))

(* ALPHA plus that sum, over the denominator ALPHA.d * wden *)

sp_Count(w, wden, I, k) ==
  BAdd(BMulSmall(wden, sp_ALPHA.n), BMulSmall(SumIn(w, I, k), sp_ALPHA.d))

RECURSIVE sp_SumMult(_, _, _)
sp_SumMult(w, mult, k) ==
  IF k = 0 THEN BZero
  ELSE BAdd(BMulSmall(w[k], mult[k]), sp_SumMult(w, mult, k - 1))

(* buildModels(history): slotCounts[s], ALPHA plus the weight of every round *)
(* whose slot s shows the outcome                                           *)
sp_slotCounts(history, s) ==
  LET n == Len(history)
      w == recencyWeights(n)
      wden == WeightDen(sp_DECAY, n)
  IN  [n |-> [o \in sp_O |-> sp_Count(w, wden, {i \in 1..n : history[i].games[s] = o}, n)],
       d |-> BMulSmall(wden, sp_ALPHA.d)]

(* buildModels(history): the decayed, Dirichlet-smoothed counts and their posteriors *)
buildModels(history) ==
  LET n == Len(history)
      w == recencyWeights(n)
      wden == WeightDen(sp_DECAY, n)
      cden == BMulSmall(wden, sp_ALPHA.d)
      slotCounts == [s \in Slots |-> sp_slotCounts(history, s)]
      globalCounts ==
        [n |-> [o \in sp_O |->
                 BAdd(BMulSmall(wden, sp_ALPHA.n),
                      BMulSmall(sp_SumMult(w, [i \in 1..n |->
                                   Cardinality({s \in Slots : history[i].games[s] = o})], n),
                                sp_ALPHA.d))],
         d |-> cden]
      markovCounts ==
        [s \in Slots |-> [prev \in sp_O |->
          [n |-> [o \in sp_O |->
                   sp_Count(w, wden, {i \in 2..n : /\ history[i - 1].games[s] = prev
                                                   /\ history[i].games[s] = o}, n)],
           d |-> cden]]]
      keys == {history[i - 1].games : i \in 2..n}
      patternCounts ==
        [key \in keys |-> [s \in Slots |->
          [n |-> [o \in sp_O |->
                   sp_Count(w, wden, {i \in 2..n : /\ history[i - 1].games = key
                                                   /\ history[i].games[s] = o}, n)],
           d |-> cden]]]
  IN  [slotPosteriors |-> Eager([s \in Slots |-> normalize(slotCounts[s], sp_OUTCOMES)]),
       globalPosterior |-> normalize(globalCounts, sp_OUTCOMES),
       markovProbs |-> Eager([s \in Slots |-> [prev \in sp_O |->
                          normalize(markovCounts[s][prev], sp_OUTCOMES)]]),
       patternProbs |-> Eager([key \in keys |-> [s \in Slots |->
                          normalize(patternCounts[key][s], sp_OUTCOMES)]])]

(* the last STREAK_WINDOW rounds of slot s all show the same alphabet member *)
sp_StreakAt(history, s) ==
  LET n == Len(history)
  IN  /\ n >= sp_STREAK_WINDOW
      /\ \A i \in (n - sp_STREAK_WINDOW + 1)..n : history[i].games[s] = history[n].games[s]
      /\ history[n].games[s] \in sp_O

(* applyStreakAdjustment(probs, history, slotIndex) *)
applyStreakAdjustment(probs, history, s) ==
  IF ~sp_StreakAt(history, s) THEN probs
  ELSE LET streakOutcome == history[Len(history)].games[s]
           otherOutcomes == sp_O \ {streakOutcome}
           m == Cardinality(otherOutcomes)
       IN  IF m = 0 THEN probs
           ELSE LET k == sp_STREAK_BONUS.d * m
                    nd == BMulSmall(probs.d, k)
                    adj == [n |-> Eager([o \in sp_O |->
                                    IF o = streakOutcome THEN BMulSmall(probs.n[o], k)
                                    ELSE BMin(nd, BAdd(BMulSmall(probs.n[o], k),
                                                       BMulSmall(probs.d, sp_STREAK_BONUS.n)))]),
                            d |-> nd]
                IN  [n |-> adj.n, d |-> VSum(adj, sp_OUTCOMES)]

(* the weights predictEnsemble uses: the override (a sequence holding at most *)
(* one weights record) or else the stored weights                             *)
sp_UsedWeights(weights, W) == IF weights = <<>> THEN W ELSE weights[1]

(* ns: the used weights divided by their sum, or by 1 when the sum is 0 or, *)
(* one of them being undefined, NaN; undefined / 1 is NaN                   *)
sp_ns(wt) ==
  LET sumN == wt.slot + wt.markov + wt.pattern + wt.streak
  IN  [slot |-> wt.slot, markov |-> wt.markov, pattern |-> wt.pattern, streak |-> wt.streak,
       d |-> IF sumN = 0 \/ wt.undef # {} THEN wt.d ELSE sumN,
       nan |-> wt.undef]

(* p_pattern when patternP is null: p_slot *)
sp_patternAsMarkov(p_slot, p_markov) == p_markov
sp_patternAbsent(p_slot, p_markov) == p_slot

(* predictEnsemble, the part of the slot loop that does not read the weights: *)
(* slotWithGlobal, markovP and patternP (p_slot when the pattern is absent)   *)
(* of every slot, the three brought to one denominator                        *)
sp_prepare(history, models) ==
  LET n == Len(history)
  IN  Eager([s \in Slots |->
        LET slotWithGlobal ==
              VMix(sp_MIX_GLOBAL.d - sp_MIX_GLOBAL.n, models.slotPosteriors[s],
                   sp_MIX_GLOBAL.n, models.globalPosterior, sp_MIX_GLOBAL.d)
            markovP == IF n > 0 /\ history[n].games[s] \in sp_O
                       THEN models.markovProbs[s][history[n].games[s]]
                       ELSE VConst(sp_OUTCOMES, 1, Len(sp_OUTCOMES))
            hasPattern == n > 0 /\ history[n].games \in DOMAIN models.patternProbs
            patternP == IF hasPattern THEN models.patternProbs[history[n].games][s]
                        ELSE VConst(sp_OUTCOMES, 0, 1)
            pd == IF hasPattern THEN patternP.d ELSE BOne
            slotN == Eager([o \in sp_O |-> BMul(BMul(slotWithGlobal.n[o], markovP.d), pd)])
            markovN == Eager([o \in sp_O |-> BMul(BMul(markovP.n[o], slotWithGlobal.d), pd)])
        IN  [slot |-> slotN,
             markov |-> markovN,
             pattern |-> IF hasPattern
                         THEN Eager([o \in sp_O |->
                                BMul(BMul(patternP.n[o], slotWithGlobal.d), markovP.d)])
                         ELSE sp_patternAbsent(slotN, markovN),
             hasPattern |-> hasPattern,
             d |-> BMul(BMul(slotWithGlobal.d, markovP.d), pd)]])

(* combined[o] = ns.slot * p_slot + ns.markov * p_markov + ns.pattern * p_pattern *)
sp_combined(prep, wt, s) ==
  LET ns == sp_ns(wt)
  IN  IF ns.nan \cap {"slot", "markov", "pattern"} # {} THEN VNaN(sp_OUTCOMES)
      ELSE
      [n |-> Eager([o \in sp_O |->
               BAdd(BAdd(BMulSmall(prep[s].slot[o], ns.slot),
                         BMulSmall(prep[s].markov[o], ns.markov)),
                    BMulSmall(prep[s].pattern[o], ns.pattern))]),
       d |-> BMulSmall(prep[s].d, ns.d)]

(* a loop over the keys that replaces best only by a strictly greater entry: *)
(* the first key holding the maximum                                         *)
RECURSIVE FirstMaxFrom(_, _, _, _)
FirstMaxFrom(dist, keys, j, best) ==
  IF j > Len(keys) THEN best
  ELSE FirstMaxFrom(dist, keys, j + 1,
         IF BLt(dist.n[best], dist.n[keys[j]]) THEN keys[j] ELSE best)

(* the picks of predictEnsemble *)
sp_argmax(dist) == FirstMaxFrom(dist, sp_OUTCOMES, 2, sp_OUTCOMES[1])

(* predictEnsemble from the prepared slots: blend, streak adjustment, final *)
(* normalize, picks                                                         *)
sp_withPicks(blendedSlots) ==
  [picks |-> [s \in Slots |-> sp_argmax(blendedSlots[s])], blendedSlots |-> blendedSlots]

sp_predictFrom(prep, history, wt) ==
  sp_withPicks(Eager([s \in Slots |->
    normalize(applyStreakAdjustment(sp_combined(prep, wt, s), history, s), sp_OUTCOMES)]))

predictEnsemble(history, models, weights, W) ==
  sp_predictFrom(sp_prepare(history, models), history, sp_UsedWeights(weights, W))

----------------------------------------------------------------------------
(* JSON text: a sequence of tokens.  JSON.stringify writes it, JSON.parse   *)
(* reads it back into arrays (sequences), objects (functions on the keys), *)
(* strings and numbers, or fails.                                          *)

Tok(type, value) == [t |-> type, v |-> value]
TokOpenArr == Tok("[", 0)
TokCloseArr == Tok("]", 0)
TokOpenObj == Tok("{", 0)
TokCloseObj == Tok("}", 0)

ParseFail == [ok |-> FALSE, val |-> 0, rest |-> <<>>, kind |-> ""]
Parsed(val, rest, kind) == [ok |-> TRUE, val |-> val, rest |-> rest, kind |-> kind]

(* how many string and number tokens toks starts with *)
ScalarRun(toks) ==
  (CHOOSE i \in 1..(Len(toks) + 1) :
     /\ i > Len(toks) \/ toks[i].t \notin {"num", "str"}
     /\ \A j \in 1..(i - 1) : toks[j].t \in {"num", "str"}) - 1

RECURSIVE ParseValue(_), ParseElems(_, _), ParseMembers(_, _)
ParseValue(toks) ==
  IF toks = <<>> THEN ParseFail
  ELSE LET h == Head(toks)
       IN  IF h.t \in {"num", "str"} THEN Parsed(h.v, Tail(toks), h.t)
           ELSE IF h.t = "[" THEN ParseElems(Tail(toks), <<>>)
           ELSE IF h.t = "{" THEN ParseMembers(Tail(toks), <<>>)
           ELSE ParseFail

(* the elements of an array; a run of strings and numbers is read in one step *)
ParseElems(toks, acc) ==
  IF toks = <<>> THEN ParseFail
  ELSE IF Head(toks).t = "]" THEN Parsed(acc, Tail(toks), "[")
  ELSE IF ScalarRun(toks) > 0
  THEN ParseElems(SubSeq(toks, ScalarRun(toks) + 1, Len(toks)),
                  acc \o [j \in 1..ScalarRun(toks) |-> toks[j].v])
  ELSE LET r == ParseValue(toks)
       IN  IF r.ok THEN ParseElems(r.rest, Append(acc, r.val)) ELSE ParseFail

ParseMembers(toks, acc) ==
  IF toks = <<>> THEN ParseFail
  ELSE IF Head(toks).t = "}" THEN Parsed(acc, Tail(toks), "{")
  ELSE IF Head(toks).t = "key"
  THEN LET r == ParseValue(Tail(toks))
       IN  IF r.ok THEN ParseMembers(r.rest, (Head(toks).v :> r.val) @@ acc) ELSE ParseFail
  ELSE ParseFail

(* JSON.parse(text): ok is FALSE when it throws *)
JSONparse(toks) ==
  LET r == ParseValue(toks)
  IN  IF r.ok /\ r.rest = <<>> THEN r ELSE ParseFail

RECURSIVE FlattenSeq(_)
FlattenSeq(q) == IF q = <<>> THEN <<>> ELSE Head(q) \o FlattenSeq(Tail(q))

StringifyStrings(q) ==
  <<TokOpenArr>> \o [j \in 1..Len(q) |-> Tok("str", q[j])] \o <<TokCloseArr>>

(* JSON.stringify(history) of sportypredictor: [{ts, games}, ...] *)
sp_stringifyHistory(history) ==
  <<TokOpenArr>>
  \o FlattenSeq([i \in 1..Len(history) |->
       <<TokOpenObj, Tok("key", "ts"), Tok("num", history[i].ts), Tok("key", "games")>>
       \o StringifyStrings(history[i].games) \o <<TokCloseObj>>])
  \o <<TokCloseArr>>

(* a file: whether it exists and its text *)
File(text) == [exists |-> TRUE, text |-> text]
NoFile == [exists |-> FALSE, text |-> <<>>]

(* loadHistory(), the same in sportypredictor and iv-redblack-advanced: the *)
(* parsed DATA_FILE, or [] when it is absent or unparsable                 *)
loadHistory(file) ==
  IF file.exists
  THEN LET r == JSONparse(file.text) IN IF r.ok THEN r.val ELSE <<>>
  ELSE <<>>

----------------------------------------------------------------------------
(* sportypredictor.cjs: input parsing.  A raw string is a sequence of        *)
(* characters (one-character strings).                                      *)

IsSpace(c) == c = " "

ToUpperCase(c) ==
  CASE c = "r" -> "R" [] c = "b" -> "B" [] c = "g" -> "G" [] c = "x" -> "X" [] OTHER -> c

(* raw.replace(/,/g, ' ') *)
ReplaceCommas(raw) == [j \in 1..Len(raw) |-> IF raw[j] = "," THEN " " ELSE raw[j]]

(* str.trim() *)
RECURSIVE TrimLeft(_)
TrimLeft(q) == IF q # <<>> /\ IsSpace(Head(q)) THEN TrimLeft(Tail(q)) ELSE q
RECURSIVE TrimRight(_)
TrimRight(q) ==
  IF q # <<>> /\ IsSpace(q[Len(q)]) THEN TrimRight(SubSeq(q, 1, Len(q) - 1)) ELSE q
Trim(q) == TrimRight(TrimLeft(q))

(* str.split(/\s+/): the pieces between the runs of spaces; cur is the piece being read *)
RECURSIVE SplitSpaces(_, _, _)
SplitSpaces(q, cur, inRun) ==
  IF q = <<>> THEN <<cur>>
  ELSE IF IsSpace(Head(q))
       THEN IF inRun THEN SplitSpaces(Tail(q), cur, TRUE)
            ELSE <<cur>> \o SplitSpaces(Tail(q), <<>>, TRUE)
       ELSE SplitSpaces(Tail(q), Append(cur, Head(q)), FALSE)

(* parseRoundInput with only the first character of a token looked up in OUTCOMES *)
parseRoundInputByFirstChar(raw) ==
  LET pieces == SplitSpaces(Trim(ReplaceCommas(raw)), <<>>, FALSE)
  IN  IF Len(pieces) # GAMES_PER_ROUND THEN [ok |-> FALSE, err |-> "count", games |-> <<>>]
      ELSE IF ~(\A j \in 1..Len(pieces) : ToUpperCase(pieces[j][1]) \in sp_O)
      THEN [ok |-> FALSE, err |-> "alphabet", games |-> <<>>]
      ELSE [ok |-> TRUE, err |-> "", games |-> [j \in 1..Len(pieces) |-> ToUpperCase(pieces[j][1])]]

(* parseRoundInput(raw): ok with the tokens, or the error thrown *)
parseRoundInput(raw) ==
  LET pieces == SplitSpaces(Trim(ReplaceCommas(raw)), <<>>, FALSE)
      tokens == [j \in 1..Len(pieces) |-> [c \in 1..Len(pieces[j]) |-> ToUpperCase(pieces[j][c])]]
  IN  IF Len(tokens) # GAMES_PER_ROUND THEN [ok |-> FALSE, err |-> "count", games |-> <<>>]
      ELSE IF ~(\A j \in 1..Len(tokens) : Len(tokens[j]) = 1 /\ tokens[j][1] \in sp_O)
      THEN [ok |-> FALSE, err |-> "alphabet", games |-> <<>>]
      ELSE [ok |-> TRUE, err |-> "", games |-> [j \in 1..Len(tokens) |-> tokens[j][1]]]

----------------------------------------------------------------------------
(* the weights file of sportypredictor: {W_SLOT, W_MARKOV, W_PATTERN, W_STREAK} *)

RECURSIVE Gcd(_, _)
Gcd(a, b) == IF b = 0 THEN a ELSE Gcd(b, a % b)
Lcm(a, b) == (a \div Gcd(a, b)) * b

(* JSON.stringify({W_SLOT, W_MARKOV, W_PATTERN, W_STREAK}): a key whose value *)
(* is undefined is left out                                                   *)
sp_member(W, field, key, val) ==
  IF field \in W.undef THEN <<>> ELSE <<Tok("key", key), Tok("num", Rat(val, W.d))>>

sp_stringifyWeights(W) ==
  <<TokOpenObj>>
    \o sp_member(W, "slot", "W_SLOT", W.slot)
    \o sp_member(W, "markov", "W_MARKOV", W.markov)
    \o sp_member(W, "pattern", "W_PATTERN", W.pattern)
    \o sp_member(W, "streak", "W_STREAK", W.streak)
    \o <<TokCloseObj>>

(* W_SLOT = w.W_SLOT; ... brought to a common denominator; a key the object *)
(* does not hold gives undefined                                            *)
sp_weightsFrom(w) ==
  LET has(k) == k \in DOMAIN w
      dOf(k) == IF has(k) THEN w[k].d ELSE 1
      den == Lcm(Lcm(dOf("W_SLOT"), dOf("W_MARKOV")), Lcm(dOf("W_PATTERN"), dOf("W_STREAK")))
      num(k) == IF has(k) THEN w[k].n * (den \div w[k].d) ELSE 0
  IN  [slot |-> num("W_SLOT"), markov |-> num("W_MARKOV"), pattern |-> num("W_PATTERN"),
       streak |-> num("W_STREAK"), d |-> den,
       undef |-> {f \in {"slot", "markov", "pattern", "streak"} :
                   ~has(CASE f = "slot" -> "W_SLOT" [] f = "markov" -> "W_MARKOV"
                          [] f = "pattern" -> "W_PATTERN" [] OTHER -> "W_STREAK")}]

----------------------------------------------------------------------------
(* sportypredictor.cjs: the inputs of a run, and the models of every history *)
(* they can build                                                            *)

MaxLen == 3            \* rounds kept in a history
MaxTs == 2             \* Date.now() takes the values 1..MaxTs
MaxWriteFailures == 1  \* file writes that fail in one run

sp_RawInputs ==
  { <<"R", ",", "R", ",", "B", ",", "G", ",", "R">>,      \* add R,R,B,G,R
    <<"r", " ", "b", " ", "b", " ", "r", " ", "g">>,      \* add r b b r g
    <<"R", ",", "B", ",", "G">>,                          \* three outcomes
    <<"R", ",", "R", ",", "B", ",", "G", ",", "x">>,      \* a token outside the alphabet
    <<"R", ",", "R", ",", "B", ",", "G", ",", "R", "R">>, \* a two-letter token
    <<>> }                                                \* add

sp_Round1 == <<"R", "R", "B", "G", "R">>
sp_InitFiles ==
  { NoFile,
    File(<<TokOpenArr, TokOpenObj>>),
    File(sp_stringifyHistory(<<[ts |-> 1, games |-> sp_Round1]>>)) }
sp_InitWFiles ==
  { NoFile,
    File(sp_stringifyWeights(Weights(0, 0, 0, 0, 100))),   \* all four weights 0
    File(<<TokOpenObj, TokCloseObj>>) }                     \* {}

(* the rounds the inputs can put into a history, and the histories they make *)
sp_Rounds ==
  {sp_Round1} \cup {parseRoundInput(raw).games : raw \in {r \in sp_RawInputs : parseRoundInput(r).ok}}
sp_GameHistories == UNION {[1..k -> sp_Rounds] : k \in 0..MaxLen}
sp_Games(history) == [i \in 1..Len(history) |-> history[i].games]
sp_AsHistory(g) == [i \in 1..Len(g) |-> [ts |-> 0, games |-> g[i]]]

(* buildModels(history) and the prepared slots of it: neither reads a timestamp *)
sp_ModelsTable == Eager([g \in sp_GameHistories |-> buildModels(sp_AsHistory(g))])
sp_PrepTable ==
  Eager([g \in sp_GameHistories |-> sp_prepare(sp_AsHistory(g), sp_ModelsTable[g])])
sp_Prepared(history) == sp_PrepTable[sp_Games(history)]

(* walkForwardEvaluate(history, weightsOverride) *)
(* history.slice(0, i + 1): the round to predict included *)
sp_wfeThroughRound(history, i) == SubSeq(history, 1, i + 1)

(* trainHist = history.slice(0, i): the first i rounds *)
sp_wfeTrainHist(history, i) == SubSeq(history, 1, i)

(* models = buildModels(trainHist); pred = predictEnsemble(trainHist, models, weights) *)
sp_wfePredict(trainHist, weights, W) ==
  sp_predictFrom(sp_Prepared(trainHist), trainHist, sp_UsedWeights(weights, W))

(* one pass of the loop body: the counters after comparing picks with actual *)
sp_wfeCount(acc, hits) ==
  [rounds |-> acc.rounds + 1,
   correctRounds |-> acc.correctRounds + (IF hits = GAMES_PER_ROUND THEN 1 ELSE 0),
   correctSlots |-> acc.correctSlots + hits,
   totalSlots |-> acc.totalSlots + GAMES_PER_ROUND]

RECURSIVE sp_wfeLoop(_, _, _, _)
sp_wfeLoop(history, weights, W, i) ==
  IF i = 0 THEN [rounds |-> 0, correctRounds |-> 0, correctSlots |-> 0, totalSlots |-> 0]
  ELSE LET picks == sp_wfePredict(sp_wfeTrainHist(history, i), weights, W).picks
           actual == history[i + 1].games
       IN  sp_wfeCount(sp_wfeLoop(history, weights, W, i - 1),
                       Cardinality({s \in Slots : picks[s] = actual[s]}))

(* the returned object; accuracies are kept as the pair of counts they are the *)
(* quotient of                                                                 *)
sp_wfeResult(r) ==
  [rounds |-> r.rounds, correctRounds |-> r.correctRounds,
   roundAccuracy |-> IF r.rounds > 0 THEN Rat(r.correctRounds, r.rounds) ELSE Rat(0, 1),
   slotAccuracy |-> IF r.totalSlots > 0 THEN Rat(r.correctSlots, r.totalSlots) ELSE Rat(0, 1),
   hasRoundAccuracy |-> TRUE]

walkForwardEvaluate(history, weights, W) ==
  IF Len(history) < 2
  THEN [rounds |-> 0, correctRounds |-> 0, roundAccuracy |-> Rat(0, 1),
        slotAccuracy |-> Rat(0, 1), hasRoundAccuracy |-> FALSE]
  ELSE sp_wfeResult(sp_wfeLoop(history, weights, W, Len(history) - 1))

RatLt(a, b) == a.n * b.d < b.n * a.d

(* coarseTune: the grid s = i/10, m = j/10 (i + j <= 10), p = 1 - s - m; the *)
(* two loops visit the points i = 0..10, j = 0..10-i in this order            *)
sp_GridSteps == 10
sp_GridWeights(i, j) ==
  LET p == sp_GridSteps - i - j
  IN  Weights(10 * i, 10 * j, 9 * p, p, 100)

sp_GridPoints == {<<i, j>> \in (0..sp_GridSteps) \X (0..sp_GridSteps) : i + j <= sp_GridSteps}
sp_GridIndex(i, j) == i * (sp_GridSteps + 1) - (i * (i - 1)) \div 2 + j + 1
sp_Grid ==
  [k \in 1..Cardinality(sp_GridPoints) |->
    LET pt == CHOOSE q \in sp_GridPoints : sp_GridIndex(q[1], q[2]) = k
    IN  sp_GridWeights(pt[1], pt[2])]

(* the first point of the grid, whatever the scores *)
sp_tuneFirst(res) ==
  [score |-> res[1].slotAccuracy, weights |-> <<sp_Grid[1]>>, res |-> <<res[1]>>]

(* best starts at score -1 and a point replaces it only when its score is *)
(* strictly greater: best ends as the first point that has the greatest   *)
(* score; res[k] is the evaluation of point k                             *)
sp_tuneBest(res) ==
  LET best == CHOOSE k \in DOMAIN sp_Grid :
                /\ \A j \in DOMAIN sp_Grid : ~RatLt(res[k].slotAccuracy, res[j].slotAccuracy)
                /\ \A j \in 1..(k - 1) : RatLt(res[j].slotAccuracy, res[k].slotAccuracy)
  IN  [score |-> res[best].slotAccuracy, weights |-> <<sp_Grid[best]>>, res |-> <<res[best]>>]

(* coarseTune(history): <<>> for null, else a one-element sequence holding best *)
coarseTune(history, W) ==
  IF Len(history) < 3 THEN <<>>
  ELSE <<sp_tuneBest(Eager([k \in DOMAIN sp_Grid |->
                             walkForwardEvaluate(history, <<sp_Grid[k]>>, W)]))>>

(* coarseTune of every history: every grid point names all four weights, so *)
(* the stored weights are never read                                        *)
sp_TuneTable ==
  Eager([g \in sp_GameHistories |-> coarseTune(sp_AsHistory(g), sp_DefaultWeights)])

(* the weights a run can hold: the defaults, those of a weights file, those tune finds *)
sp_WeightsSet ==
  {sp_DefaultWeights}
    \cup {sp_weightsFrom(JSONparse(f.text).val) : f \in {x \in sp_InitWFiles : x.exists}}
    \cup {t[1].weights[1] : t \in {sp_TuneTable[g] : g \in sp_GameHistories} \ {<<>>}}

sp_PredTable ==
  Eager([g \in sp_GameHistories |-> Eager([W \in sp_WeightsSet |->
    predictEnsemble(sp_AsHistory(g), sp_ModelsTable[g], <<>>, W)])])

sp_EvalTable ==
  Eager([g \in sp_GameHistories |-> Eager([W \in sp_WeightsSet |->
    walkForwardEvaluate(sp_AsHistory(g), <<>>, W)])])

----------------------------------------------------------------------------
(* sportypredictor.cjs: the command loop *)

(* fs.writeFileSync(file, text): written, or it throws and leaves the file as it was *)
WriteResults(k) == IF k < MaxWriteFailures THEN {"ok", "denied"} ELSE {"ok"}
WriteFile(file, text, res) == IF res = "ok" THEN File(text) ELSE file

(* Date.now(): not before the last stored timestamp *)
sp_Now(history) ==
  {t \in 1..MaxTs : history = <<>> \/ t >= history[Len(history)].ts}

(* printPredictions(result) *)
printPredictions(result) == [kind |-> "pred", picks |-> result.picks, probs |-> result.blendedSlots]
sp_Prediction(history, W) == printPredictions(sp_PredTable[sp_Games(history)][W])

sp_Msg(text) == [kind |-> "msg", text |-> text]
sp_Error(text) == [kind |-> "error", text |-> text]

(* the terminal: the command read, its argument, and what it made the program print *)
sp_Says(cmd, arg, shown) == [cmd |-> cmd, arg |-> arg, shown |-> shown]

(* no command is being handled *)
sp_Idle == [at |-> "idle"]

(* before the script is started: the files it will find *)
sp_Init(files, wfiles) ==
  /\ sp_running = FALSE
  /\ sp_job = sp_Idle
  /\ sp_history = <<>>
  /\ sp_file \in files
  /\ sp_W = sp_DefaultWeights
  /\ sp_wfile \in wfiles
  /\ sp_out = sp_Says("", <<>>, sp_Msg("none"))

(* node sportypredictor.cjs: runCLI up to the first prompt *)
sp_Start ==
  /\ prog = "sp" /\ ~sp_running
  /\ sp_running' = TRUE
  /\ sp_history' = loadHistory(sp_file)
  /\ sp_W' = sp_DefaultWeights
  /\ sp_out' = sp_Says("", <<>>, sp_Msg("help"))
  /\ UNCHANGED <<prog, sp_job, sp_file, sp_wfile, fails, iv_vars, rb_vars>>

(* add <raw> *)
sp_Add(raw) ==
  /\ prog = "sp" /\ sp_running /\ sp_job = sp_Idle
  /\ LET pr == parseRoundInput(raw)
     IN  IF ~pr.ok
         THEN /\ sp_out' = sp_Says("add", raw, sp_Error(pr.err))
              /\ UNCHANGED <<sp_history, sp_file, fails>>
         ELSE /\ Len(sp_history) < MaxLen
              /\ \E ts \in sp_Now(sp_history), res \in WriteResults(fails) :
                   LET h == Append(sp_history, [ts |-> ts, games |-> pr.games])
                   IN  /\ sp_history' = h
                       /\ sp_file' = WriteFile(sp_file, sp_stringifyHistory(h), res)
                       /\ fails' = IF res = "ok" THEN fails ELSE fails + 1
                       /\ sp_out' = sp_Says("add", raw, IF res = "ok" THEN sp_Prediction(h, sp_W)
                                                         ELSE sp_Error("write"))
  /\ UNCHANGED <<prog, sp_job, sp_running, sp_W, sp_wfile, iv_vars, rb_vars>>

(* predict *)
sp_Predict ==
  /\ prog = "sp" /\ sp_running /\ sp_job = sp_Idle
  /\ sp_out' = sp_Says("predict", <<>>, sp_Prediction(sp_history, sp_W))
  /\ UNCHANGED <<prog, sp_job, sp_running, sp_history, sp_file, sp_W, sp_wfile, fails, iv_vars,
                 rb_vars>>

(* show: the last 10 rounds with their numbers *)
sp_Show ==
  /\ prog = "sp" /\ sp_running /\ sp_job = sp_Idle
  /\ sp_out' = LET n == Len(sp_history)
                   from == IF n > 10 THEN n - 9 ELSE 1
               IN  sp_Says("show", <<>>,
                           [kind |-> "show",
                            lines |-> [j \in 1..(n - from + 1) |->
                                         <<from + j - 1, sp_history[from + j - 1].games>>]])
  /\ UNCHANGED <<prog, sp_job, sp_running, sp_history, sp_file, sp_W, sp_wfile, fails, iv_vars,
                 rb_vars>>

(* history.shift() *)
sp_shifted(history) == Tail(history)

(* history.pop() *)
sp_popped(history) == SubSeq(history, 1, Len(history) - 1)

(* undo *)
sp_Undo ==
  /\ prog = "sp" /\ sp_running /\ sp_job = sp_Idle
  /\ IF sp_history = <<>>
     THEN /\ sp_out' = sp_Says("undo", <<>>, sp_Msg("Nothing to remove."))
          /\ UNCHANGED <<sp_history, sp_file, fails>>
     ELSE \E res \in WriteResults(fails) :
            LET h == sp_popped(sp_history)
            IN  /\ sp_history' = h
                /\ sp_file' = WriteFile(sp_file, sp_stringifyHistory(h), res)
                /\ fails' = IF res = "ok" THEN fails ELSE fails + 1
                /\ sp_out' = sp_Says("undo", <<>>, IF res = "ok" THEN sp_Msg("Removed last round.")
                                                   ELSE sp_Error("write"))
  /\ UNCHANGED <<prog, sp_job, sp_running, sp_W, sp_wfile, iv_vars, rb_vars>>

(* reset *)
sp_Reset ==
  /\ prog = "sp" /\ sp_running /\ sp_job = sp_Idle
  /\ \E res \in WriteResults(fails) :
       /\ sp_history' = <<>>
       /\ sp_file' = WriteFile(sp_file, sp_stringifyHistory(<<>>), res)
       /\ fails' = IF res = "ok" THEN fails ELSE fails + 1
       /\ sp_out' = sp_Says("reset", <<>>, IF res = "ok" THEN sp_Msg("Cleared history.")
                                           ELSE sp_Error("write"))
  /\ UNCHANGED <<prog, sp_job, sp_running, sp_W, sp_wfile, iv_vars, rb_vars>>

(* evaluate *)
sp_Evaluate ==
  /\ prog = "sp" /\ sp_running /\ sp_job = sp_Idle
  /\ sp_out' = sp_Says("evaluate", <<>>,
                        [kind |-> "eval", res |-> sp_EvalTable[sp_Games(sp_history)][sp_W]])
  /\ UNCHANGED <<prog, sp_job, sp_running, sp_history, sp_file, sp_W, sp_wfile, fails, iv_vars,
                 rb_vars>>

(* tune *)
sp_Tune ==
  /\ prog = "sp" /\ sp_running /\ sp_job = sp_Idle
  /\ \E best \in {sp_TuneTable[sp_Games(sp_history)]} :
       IF best = <<>>
       THEN /\ sp_out' = sp_Says("tune", <<>>,
                                  sp_Msg("Not enough history (need at least 3 rounds)."))
            /\ UNCHANGED sp_W
       ELSE /\ sp_out' = sp_Says("tune", <<>>, [kind |-> "tuned", score |-> best[1].score,
                                                 weights |-> best[1].weights[1]])
            /\ sp_W' = best[1].weights[1]
  /\ UNCHANGED <<prog, sp_job, sp_running, sp_history, sp_file, sp_wfile, fails, iv_vars, rb_vars>>

(* config, help, and a command that is not known *)
sp_Info(cmd) ==
  /\ prog = "sp" /\ sp_running /\ sp_job = sp_Idle
  /\ sp_out' = sp_Says(cmd, <<>>, sp_Msg(IF cmd \in {"config", "help"} THEN cmd
                                         ELSE "Unknown command. Type help."))
  /\ UNCHANGED <<prog, sp_job, sp_running, sp_history, sp_file, sp_W, sp_wfile, fails, iv_vars,
                 rb_vars>>

(* saveweights *)
sp_SaveWeights ==
  /\ prog = "sp" /\ sp_running /\ sp_job = sp_Idle
  /\ \E res \in WriteResults(fails) :
       /\ sp_wfile' = WriteFile(sp_wfile, sp_stringifyWeights(sp_W), res)
       /\ fails' = IF res = "ok" THEN fails ELSE fails + 1
       /\ sp_out' = sp_Says("saveweights", <<>>,
                             IF res = "ok" THEN sp_Msg("Saved weights to weights.json")
                             ELSE sp_Error("write"))
  /\ UNCHANGED <<prog, sp_job, sp_running, sp_history, sp_file, sp_W, iv_vars, rb_vars>>

(* loadweights *)
sp_LoadWeights ==
  /\ prog = "sp" /\ sp_running /\ sp_job = sp_Idle
  /\ LET r == IF sp_wfile.exists THEN JSONparse(sp_wfile.text) ELSE ParseFail
     IN  IF r.ok
         THEN /\ sp_W' = sp_weightsFrom(r.val)
              /\ sp_out' = sp_Says("loadweights", <<>>, sp_Msg("Loaded weights."))
         ELSE /\ sp_out' = sp_Says("loadweights", <<>>, sp_Msg("No weights file found."))
              /\ UNCHANGED sp_W
  /\ UNCHANGED <<prog, sp_job, sp_running, sp_history, sp_file, sp_wfile, fails, iv_vars, rb_vars>>

(* exit, quit: the process ends and its memory with it *)
sp_Exit ==
  /\ prog = "sp" /\ sp_running /\ sp_job = sp_Idle
  /\ sp_running' = FALSE
  /\ sp_history' = <<>>
  /\ sp_W' = sp_DefaultWeights
  /\ sp_out' = sp_Says("exit", <<>>, sp_Msg("Bye"))
  /\ UNCHANGED <<prog, sp_job, sp_file, sp_wfile, fails, iv_vars, rb_vars>>

sp_Next ==
  \/ sp_Start
  \/ \E raw \in sp_RawInputs : sp_Add(raw)
  \/ sp_Predict
  \/ sp_Show
  \/ sp_Undo
  \/ sp_Reset
  \/ sp_Evaluate
  \/ sp_Tune
  \/ \E cmd \in {"config", "help", "status"} : sp_Info(cmd)
  \/ sp_SaveWeights
  \/ sp_LoadWeights
  \/ sp_Exit

----------------------------------------------------------------------------
(* iv-redblack-advanced.cjs: configuration, sub-models and ensemble *)

iv_OUTCOMES == <<"RED", "BLACK", "GREEN">>
iv_O == {iv_OUTCOMES[j] : j \in 1..Len(iv_OUTCOMES)}
N_WINDOW == 10
iv_DECAY == Rat(197, 200)
iv_MIX_MARKOV == Rat(35, 100)
iv_MIX_LOGREG == Rat(55, 100)
iv_MIX_MARG == Rat(10, 100)
iv_STREAK_WINDOW == 3
iv_STREAK_BONUS == Rat(6, 100)
iv_RECENT_WINDOW == 20

(* history.map(h => h.outcome) *)
iv_Outcomes(history) == [i \in 1..Len(history) |-> history[i].outcome]

(* JSON.stringify(history): [{ts, outcome}, ...] *)
iv_stringifyHistory(history) ==
  <<TokOpenArr>>
  \o FlattenSeq([i \in 1..Len(history) |->
       <<TokOpenObj, Tok("key", "ts"), Tok("num", history[i].ts),
         Tok("key", "outcome"), Tok("str", history[i].outcome), TokCloseObj>>])
  \o <<TokCloseArr>>

(* buildFeatureFromHistory(history, i): the feature vector, entry by entry; *)
(* now is Date.now(), read when the window is empty                         *)
buildFeatureFromHistory(history, i, now) ==
  LET window == SubSeq(history, (IF i > N_WINDOW THEN i - N_WINDOW ELSE 0) + 1, i)
      longWindow == SubSeq(history, (IF i > 200 THEN i - 200 ELSE 0) + 1, i)
      wl == Len(window)
      lastTs == IF wl > 0 THEN window[wl].ts ELSE now
      broken == {j \in 1..wl : window[j].outcome # window[wl].outcome}
      streak == IF broken = {} THEN wl ELSE wl - (CHOOSE j \in broken : \A k \in broken : k <= j)
  IN  [counts |-> [o \in iv_O |->
                    Rat(Cardinality({j \in 1..wl : window[j].outcome = o}),
                        IF wl > 1 THEN wl ELSE 1)],
       last |-> [o \in iv_O |-> IF wl > 0 /\ window[wl].outcome = o THEN 1 ELSE 0],
       streak |-> Rat(IF streak < 9 THEN streak ELSE 9, 9),
       pos |-> IF Len(history) > 0 THEN Len(history) % 5 ELSE 0,
       hour |-> Rat((lastTs % 86400000) \div 60000, 60),
       longCounts |-> [o \in iv_O |->
                        Rat(Cardinality({j \in 1..Len(longWindow) : longWindow[j].outcome = o}),
                            IF Len(longWindow) > 1 THEN Len(longWindow) ELSE 1)]]

(* What softmax returns is a distribution.  trainSoftmax starts from random *)
(* weights and shuffles the samples at random, so the classifier it returns *)
(* is any of iv_Models; a classifier is the one-element sequence holding    *)
(* the distribution it returns, and null is the empty sequence.             *)
iv_Models ==
  { <<VConst(iv_OUTCOMES, 1, 3)>>,
    <<[n |-> [o \in iv_O |-> BFromInt(CASE o = "RED" -> 1 [] o = "BLACK" -> 2 [] OTHER -> 7)],
       d |-> BFromInt(10)]>> }

(* trainSoftmax(X, Y, opts): the classifiers it can return *)
trainSoftmax(samples) == IF samples = <<>> THEN {<<>>} ELSE iv_Models

(* predictSoftmaxModel(model, x) *)
predictSoftmaxModel(model, x) == model[1]

(* buildMarginal(history): counts, the weight of every entry showing the outcome *)
iv_margCounts(history) ==
  LET n == Len(history)
      w == DecayWeights(iv_DECAY, n)
  IN  [n |-> Eager([o \in iv_O |-> SumIn(w, {i \in 1..n : history[i].outcome = o}, n)]),
       d |-> WeightDen(iv_DECAY, n)]

(* buildMarginal(history) *)
buildMarginal(history) == normalize(iv_margCounts(history), iv_OUTCOMES)

(* every row uniform *)
iv_uniformRow(row) == VConst(iv_OUTCOMES, 1, Len(iv_OUTCOMES))

(* a row of counts as probabilities: uniform when the row is empty *)
iv_markovRow(row) ==
  IF VSum(row, iv_OUTCOMES) = BZero THEN VConst(iv_OUTCOMES, 1, Len(iv_OUTCOMES))
  ELSE normalize(row, iv_OUTCOMES)

(* buildMarkov(history) *)
buildMarkov(history) ==
  LET n == Len(history)
      w == DecayWeights(iv_DECAY, n)
  IN  Eager([a \in iv_O |->
        iv_markovRow([n |-> Eager([b \in iv_O |->
                               SumIn(w, {i \in 2..n : /\ history[i - 1].outcome = a
                                                      /\ history[i].outcome = b}, n)]),
                      d |-> WeightDen(iv_DECAY, n)])])

(* the last `window` entries of list are one and the same member of the alphabet *)
HasStreak(list, alphabet, window) ==
  /\ Len(list) >= window
  /\ \A i \in (Len(list) - window + 1)..Len(list) : list[i] = list[Len(list)]
  /\ \E j \in 1..Len(alphabet) : alphabet[j] = list[Len(list)]

(* adj of applyStreakBias: shift = min(bonus, probs[repeated] * 0.5) leaves  *)
(* repeated and shift / others.length goes to each other outcome; addEach    *)
(* is that share over the denominator probs.d * 2 * others.length * bonus.d  *)
StreakShift(probs, repeated, alphabet, bonus) ==
  LET m == Len(alphabet) - 1
      k == 2 * m * bonus.d
      addEach == BMin(BMulSmall(probs.d, 2 * bonus.n), BMulSmall(probs.n[repeated], bonus.d))
  IN  [n |-> Eager([o \in DOMAIN probs.n |->
               IF o = repeated
               THEN BSub(BMulSmall(probs.n[o], k), BMulSmall(addEach, m))
               ELSE BAdd(BMulSmall(probs.n[o], k), addEach)]),
       d |-> BMulSmall(probs.d, k)]

(* applyStreakBias(probs, historyList) of iv-redblack-advanced: adj is returned as it is *)
iv_applyStreakBias(probs, historyList) ==
  IF HasStreak(historyList, iv_OUTCOMES, iv_STREAK_WINDOW)
  THEN StreakShift(probs, historyList[Len(historyList)], iv_OUTCOMES, iv_STREAK_BONUS)
  ELSE probs

(* combined[o] = MIX_LOGREG * logregProbs[o] + MIX_MARKOV * markovProbs[o] + MIX_MARG * margl[o] *)
iv_combined(logregProbs, markovProbs, margl) ==
  VMix(iv_MIX_LOGREG.n + iv_MIX_MARKOV.n,
       VMix(iv_MIX_LOGREG.n, logregProbs, iv_MIX_MARKOV.n, markovProbs,
            iv_MIX_LOGREG.n + iv_MIX_MARKOV.n),
       iv_MIX_MARG.n, margl, iv_MIX_MARG.d)

(* combined, with markovProbs = markov[last] when there is a last outcome, else margl *)
iv_blend(history, logregProbs, markov, margl) ==
  iv_combined(logregProbs,
              IF history # <<>> /\ history[Len(history)].outcome \in DOMAIN markov
              THEN markov[history[Len(history)].outcome] ELSE margl,
              margl)

(* ensemblePredict(history, model) up to combined *)
iv_blendOf(history, model, now) ==
  iv_blend(history,
           IF model # <<>>
           THEN predictSoftmaxModel(model, buildFeatureFromHistory(history, Len(history), now))
           ELSE VConst(iv_OUTCOMES, 1, Len(iv_OUTCOMES)),
           buildMarkov(history), buildMarginal(history))

(* and from combined on: biased = applyStreakBias(combined, history.map(h => h.outcome)); *)
(* the normalized biased is returned                                                     *)
iv_ensembleFrom(combined, historyList) ==
  normalize(iv_applyStreakBias(combined, historyList), iv_OUTCOMES)

(* ensemblePredict(history, model) *)
ensemblePredict(history, model, now) ==
  iv_ensembleFrom(iv_blendOf(history, model, now), iv_Outcomes(history))

(* the greatest numerator of a distribution *)
VMax(dist) == dist.n[CHOOSE o \in DOMAIN dist.n : \A q \in DOMAIN dist.n : BLe(dist.n[q], dist.n[o])]

(* argmaxWithRandomTie(dist): the candidates, within 1e-9 of the maximum; the *)
(* pick is any of them                                                        *)
iv_candidatesOf(dist, bestP) ==
  {o \in DOMAIN dist.n : BLe(BMul(BSub(bestP, dist.n[o]), BFromInt(1000000000)), dist.d)}

argmaxWithRandomTie(dist) == iv_candidatesOf(dist, VMax(dist))

----------------------------------------------------------------------------
(* iv-redblack-advanced.cjs: the histories of a run, and walk-forward evaluation *)

MaxPred == 2   \* predictions scored in one run

(* a stored history of 21 outcomes, one every 5 seconds up to 105000 ms *)
iv_Stored ==
  [i \in 1..21 |-> [ts |-> 5000 * i,
                    outcome |-> IF i % 7 = 0 THEN "GREEN"
                                ELSE IF i % 3 = 0 \/ i > 19 THEN "BLACK" ELSE "RED"]]

(* the outcomes a history can hold: nothing or the stored ones, then those  *)
(* of the passes of one run; the 20 outcomes the first round of a          *)
(* walk-forward evaluation trains on; and the stored ones cut at any length *)
iv_OutcomeSeqs ==
  {base \o t : base \in {<<>>, iv_Outcomes(iv_Stored), SubSeq(iv_Outcomes(iv_Stored), 1, 20)},
               t \in UNION {[1..k -> iv_O] : k \in 0..(MaxPred + 1)}}
    \cup {SubSeq(iv_Outcomes(iv_Stored), 1, k) : k \in 0..Len(iv_Stored)}

(* combined of ensemblePredict for each of them with every classifier: it  *)
(* reads no timestamp but for the features, and what the classifiers of   *)
(* iv_Models return does not depend on the features                       *)
iv_AsHistory(outs) == [i \in 1..Len(outs) |-> [ts |-> 0, outcome |-> outs[i]]]

iv_BlendTable ==
  Eager([outs \in iv_OutcomeSeqs |-> Eager([model \in {<<>>} \cup iv_Models |->
    iv_blendOf(iv_AsHistory(outs), model, 0)])])

iv_Blended(history, model) == iv_BlendTable[iv_Outcomes(history)][model]

(* ensemblePredict(history, model) *)
iv_Predicted(history, model) == iv_ensembleFrom(iv_Blended(history, model), iv_Outcomes(history))

iv_minTrain == IF 20 > N_WINDOW + 5 THEN 20 ELSE N_WINDOW + 5

(* minTrain = options.minTrain || Math.max(20, N_WINDOW + 5); options is <<>> *)
(* when the caller gives none                                                 *)
iv_minTrainOf(options) ==
  IF options # <<>> /\ options[1].minTrain # 0 THEN options[1].minTrain ELSE iv_minTrain

(* trainHist = history.slice(0, i) *)
iv_wfeTrainHist(history, i) == SubSeq(history, 1, i)

(* X and Y: the sample of every index j = N_WINDOW .. hist.length - 1 *)
iv_samples(hist, now) ==
  [q \in 1..(Len(hist) - N_WINDOW) |->
    [x |-> buildFeatureFromHistory(hist, N_WINDOW + q - 1, now),
     y |-> hist[N_WINDOW + q].outcome]]

(* the picks round i can make: a classifier trained on trainHist, the ensemble *)
(* of trainHist, a pick among the candidates                                   *)
iv_wfePicks(trainHist, now) ==
  UNION {argmaxWithRandomTie(iv_Predicted(trainHist, model)) :
           model \in trainSoftmax(iv_samples(trainHist, now))}

(* the rounds tested, and whether the pick of each was right *)
iv_wfeResult(history, rounds, hits) ==
  [tested |-> Cardinality(rounds),
   accuracy |-> IF rounds # {} THEN Rat(Cardinality({i \in rounds : hits[i]}), Cardinality(rounds))
                ELSE Rat(0, 1),
   perOutcome |-> [o \in iv_O |->
     [total |-> Cardinality({i \in rounds : history[i + 1].outcome = o}),
      correct |-> Cardinality({i \in rounds : history[i + 1].outcome = o /\ hits[i]})]]]

(* walkForwardEvaluate(history): the results it can return *)
iv_walkForwardEvaluate(history, options, now) ==
  IF Len(history) <= iv_minTrainOf(options)
  THEN {[tested |-> 0, accuracy |-> Rat(0, 1), perOutcome |-> <<>>]}
  ELSE LET rounds == {i \in iv_minTrainOf(options)..(Len(history) - 1) :
                        Len(iv_samples(iv_wfeTrainHist(history, i), now)) >= 10}
           canHit == Eager([i \in rounds |->
                       {pick = history[i + 1].outcome :
                          pick \in iv_wfePicks(iv_wfeTrainHist(history, i), now)}])
       IN  {iv_wfeResult(history, rounds, hits) :
              hits \in {f \in [rounds -> BOOLEAN] : \A i \in rounds : f[i] \in canHit[i]}}

----------------------------------------------------------------------------
(* iv-redblack-advanced.cjs: the live loop and the offline commands *)

iv_InitFiles == { NoFile, File(<<TokOpenArr, TokOpenObj>>), File(iv_stringifyHistory(iv_Stored)) }

(* the run starts 1 s or 15 s after the last stored outcome *)
iv_StartTimes == {106000, 120000}

(* before a command is read: the file the script will find, and the time *)
iv_Init(files, times) ==
  /\ iv_scraping = FALSE
  /\ iv_file \in files
  /\ iv_now \in times
  /\ iv_model = <<>>
  /\ iv_second = [on |-> FALSE, model |-> <<>>]
  /\ iv_lastPick = ""
  /\ iv_totalPred = 0
  /\ iv_correctPred = 0
  /\ iv_recent = <<>>
  /\ iv_out = [cmd |-> "", shown |-> [kind |-> "none"]]

(* the retrain both the start of the loop and its passes make, when `wanted`: *)
(* a new classifier if there are more than 10 samples, else the model kept    *)
iv_retrain(model, hist, wanted, now) ==
  IF wanted /\ Len(iv_samples(hist, now)) > 10 THEN trainSoftmax(iv_samples(hist, now))
  ELSE {model}

(* scrape: runScrapeAndPredictLoop up to its loop *)
iv_Scrape ==
  /\ prog = "iv" /\ ~iv_scraping
  /\ iv_scraping' = TRUE
  /\ iv_model' \in iv_retrain(<<>>, loadHistory(iv_file),
                              Len(loadHistory(iv_file)) > (IF 30 > N_WINDOW THEN 30 ELSE N_WINDOW),
                              iv_now)
  /\ iv_out' = [cmd |-> "scrape", shown |-> [kind |-> "none"]]
  /\ UNCHANGED <<prog, fails, sp_vars, rb_vars, iv_file, iv_now, iv_second, iv_lastPick,
                 iv_totalPred, iv_correctPred, iv_recent>>

(* recordOutcome(outcome) skips an outcome equal to the last one stored less *)
(* than 2000 ms ago                                                          *)
iv_isDuplicate(history, outcome, now) ==
  /\ history # <<>>
  /\ history[Len(history)].outcome = outcome
  /\ now - history[Len(history)].ts < 2000

(* recordOutcome(outcome) with history = loadHistory(): the file after it *)
iv_recordInto(file, history, outcome, now, res) ==
  IF iv_isDuplicate(history, outcome, now) THEN file
  ELSE WriteFile(file, iv_stringifyHistory(Append(history, [ts |-> now, outcome |-> outcome])),
                 res)

recordOutcome(file, outcome, now, res) ==
  iv_recordInto(file, loadHistory(file), outcome, now, res)

(* recentPredictions.push(ok); shift when longer than RECENT_WINDOW *)
iv_pushRecent(recent, ok) ==
  IF Len(recent) + 1 > iv_RECENT_WINDOW THEN Tail(Append(recent, ok)) ELSE Append(recent, ok)

(* the `model` of a loop: loop 1 is the loop of the first scrape command *)
iv_modelOf(loop) == IF loop = 1 THEN iv_model ELSE iv_second.model

(* the end of a pass: retrain, ensemblePredict, pick, lastPick = pick *)
iv_PredictNext(loop, observed, hist) ==
  \E model \in iv_retrain(iv_modelOf(loop), hist,
                          iv_modelOf(loop) = <<>> \/ Len(hist) % 5 = 0, iv_now) :
    \E dist \in {iv_Predicted(hist, model)} :
      \E pick \in argmaxWithRandomTie(dist) :
        /\ iv_model' = IF loop = 1 THEN model ELSE iv_model
        /\ iv_second' = IF loop = 1 THEN iv_second ELSE [iv_second EXCEPT !.model = model]
        /\ iv_lastPick' = pick
        /\ iv_out' = [cmd |-> "pass", loop |-> loop,
                      shown |-> [kind |-> "pred", observed |-> observed,
                                 dist |-> dist, pick |-> pick]]

(* one pass of the loop with an outcome read from the page: score lastPick, *)
(* record, reload, retrain, predict; a throwing saveHistory ends the pass    *)
iv_PassOf(loop, observed) ==
  /\ prog = "iv" /\ (IF loop = 1 THEN iv_scraping ELSE iv_second.on)
  /\ iv_totalPred < MaxPred
  /\ iv_now' = iv_now + 2000
  /\ iv_totalPred' = IF iv_lastPick # "" THEN iv_totalPred + 1 ELSE iv_totalPred
  /\ iv_correctPred' = IF iv_lastPick = observed THEN iv_correctPred + 1 ELSE iv_correctPred
  /\ iv_recent' = IF iv_lastPick # "" THEN iv_pushRecent(iv_recent, iv_lastPick = observed)
                  ELSE iv_recent
  /\ \E res \in WriteResults(fails), hist \in {loadHistory(iv_file)} :
       /\ iv_file' = iv_recordInto(iv_file, hist, observed, iv_now, res)
       /\ IF res = "denied" /\ ~iv_isDuplicate(hist, observed, iv_now)
          THEN /\ fails' = fails + 1
               /\ iv_out' = [cmd |-> "pass", loop |-> loop,
                             shown |-> [kind |-> "error", text |-> "Loop error"]]
               /\ UNCHANGED <<iv_model, iv_second, iv_lastPick>>
          ELSE /\ fails' = fails
               /\ iv_PredictNext(loop, observed,
                                 IF iv_isDuplicate(hist, observed, iv_now) THEN hist
                                 ELSE Append(hist, [ts |-> iv_now, outcome |-> observed]))
  /\ UNCHANGED <<prog, sp_vars, rb_vars, iv_scraping>>

(* a pass of the loop of the scrape command *)
iv_Pass(observed) == iv_PassOf(1, observed)

(* predict: the model is what MODEL_FILE holds, if it exists *)
iv_Predict(model) ==
  /\ prog = "iv"
  /\ \E dist \in {iv_Predicted(loadHistory(iv_file), model)} :
       \E pick \in argmaxWithRandomTie(dist) :
         iv_out' = [cmd |-> "predict", shown |-> [kind |-> "pred", model |-> model,
                                                  dist |-> dist, pick |-> pick]]
  /\ UNCHANGED <<prog, fails, sp_vars, rb_vars, iv_scraping, iv_file, iv_now, iv_model, iv_second,
                 iv_lastPick, iv_totalPred, iv_correctPred, iv_recent>>

(* backtest *)
iv_Backtest ==
  /\ prog = "iv"
  /\ \E res \in iv_walkForwardEvaluate(loadHistory(iv_file), <<>>, iv_now) :
       iv_out' = [cmd |-> "backtest",
                  shown |-> [kind |-> "backtest", options |-> <<>>, res |-> res]]
  /\ UNCHANGED <<prog, fails, sp_vars, rb_vars, iv_scraping, iv_file, iv_now, iv_model, iv_second,
                 iv_lastPick, iv_totalPred, iv_correctPred, iv_recent>>

iv_Next ==
  \/ iv_Scrape
  \/ \E observed \in iv_O : iv_Pass(observed)
  \/ \E model \in {<<>>} \cup iv_Models : iv_Predict(model)
  \/ iv_Backtest

----------------------------------------------------------------------------
(* redblack_predictor_fixed.cjs (src/index.cjs)                              *)
(* A counter of marg and trans is kept as the sequence c of its coefficients *)
(* in powers of DECAY: its value is the sum of c[j] * DECAY^(j-1), in units  *)
(* of 1 / ALPHA.d.  Coefficients stay far below DECAY.n, so two counters are *)
(* equal numbers exactly when they are equal sequences.                      *)

rb_OUTCOMES == <<"RED", "BLACK", "GREEN">>
rb_O == {rb_OUTCOMES[j] : j \in 1..Len(rb_OUTCOMES)}
rb_DECAY == Rat(197, 200)
rb_ALPHA == Rat(1, 2)
rb_MIX_GLOBAL == Rat(20, 100)
rb_STREAK_WINDOW == 3
rb_STREAK_BONUS == Rat(8, 100)
rb_RECENT_WINDOW == 20
rb_LoadCap == 500
rb_KeepCap == 1000

(* trans, marg and lastOutcome as the script starts *)
rb_InitModel ==
  [marg |-> [a \in rb_O |-> <<rb_ALPHA.n>>],
   trans |-> [a \in rb_O |-> [b \in rb_O |-> <<rb_ALPHA.n>>]],
   lastOutcome |-> ""]

(* decayCounts() *)
decayCounts(m) ==
  [marg |-> [a \in rb_O |-> <<0>> \o m.marg[a]],
   trans |-> [a \in rb_O |-> [b \in rb_O |-> <<0>> \o m.trans[a][b]]],
   lastOutcome |-> m.lastOutcome]

(* counter += 1 *)
rb_plusOne(c) == [c EXCEPT ![1] = @ + rb_ALPHA.d]

(* updateModel(observed), on the decayed counters d *)
rb_count(d, observed) ==
  [marg |-> [d.marg EXCEPT ![observed] = rb_plusOne(@)],
   trans |-> IF d.lastOutcome # ""
             THEN [d.trans EXCEPT ![d.lastOutcome][observed] = rb_plusOne(@)]
             ELSE d.trans,
   lastOutcome |-> observed]

updateModel(m, observed) == Eager(rb_count(decayCounts(m), observed))

(* for (const o of outcomesList) if (OUTCOMES.includes(o)) updateModel(o), for *)
(* the entries lo..hi: the first half of the range, then the second half from *)
(* the model l the first half leaves                                          *)
RECURSIVE rb_replay(_, _, _, _)
rb_replay(m, list, lo, hi) ==
  IF lo > hi THEN m
  ELSE IF lo = hi THEN (IF list[lo] \in rb_O THEN updateModel(m, list[lo]) ELSE m)
  ELSE CHOOSE r \in { rb_replay(l, list, (lo + hi) \div 2 + 1, hi) :
                         l \in {rb_replay(m, list, lo, (lo + hi) \div 2)} } : TRUE

(* arr.slice(-500) *)
rb_lastOf(arr, k) == IF Len(arr) > k THEN SubSeq(arr, Len(arr) - k + 1, Len(arr)) ELSE arr

(* loadPersistedOutcomes(): outcomesList and the model after it *)
rb_loaded(list, m) ==
  [outcomesList |-> list, model |-> rb_replay([m EXCEPT !.lastOutcome = ""], list, 1, Len(list))]

rb_loadParsed(r, outcomesList, m) ==
  IF r.ok /\ r.kind = "[" THEN rb_loaded(rb_lastOf(r.val, rb_LoadCap), m)
  ELSE [outcomesList |-> outcomesList, model |-> m]

loadPersistedOutcomes(file, outcomesList, m) ==
  IF file.exists THEN rb_loadParsed(JSONparse(file.text), outcomesList, m)
  ELSE [outcomesList |-> outcomesList, model |-> m]

(* a full list turns the new outcome away *)
rb_pushedIfRoom(list, o) == IF Len(list) + 1 > rb_KeepCap THEN list ELSE Append(list, o)

(* outcomesList.push(o); if (outcomesList.length > 1000) outcomesList.shift() *)
rb_pushed(list, o) ==
  IF Len(list) + 1 > rb_KeepCap THEN Tail(Append(list, o)) ELSE Append(list, o)

(* k^e, by halves *)
RECURSIVE rb_pow(_, _)
rb_pow(k, e) ==
  IF e = 0 THEN BOne
  ELSE IF e = 1 THEN BFromInt(k)
  ELSE CHOOSE r \in { BMul(l, rb_pow(k, e - e \div 2)) : l \in {rb_pow(k, e \div 2)} } : TRUE

(* the entries lo..hi of a counter c, entry j decayed j - lo times, over the *)
(* denominator DECAY.d^(hi - lo): the first half, then the second half      *)
(* decayed past the first                                                   *)
RECURSIVE rb_valueFrom(_, _, _)
rb_valueFrom(c, lo, hi) ==
  IF lo = hi THEN BFromInt(c[lo])
  ELSE CHOOSE r \in
         { BAdd(BMul(l, rb_pow(rb_DECAY.d, hi - (lo + hi) \div 2)),
                BMul(u, rb_pow(rb_DECAY.n, (lo + hi) \div 2 + 1 - lo))) :
             l \in {rb_valueFrom(c, lo, (lo + hi) \div 2)},
             u \in {rb_valueFrom(c, (lo + hi) \div 2 + 1, hi)} } : TRUE

(* the value of the counters cs of one row, over one denominator *)
rb_values(cs) ==
  [n |-> Eager([o \in DOMAIN cs |-> rb_valueFrom(cs[o], 1, Len(cs[o]))]),
   d |-> BMulSmall(rb_pow(rb_DECAY.d, Len(cs[rb_OUTCOMES[1]]) - 1), rb_ALPHA.d)]

(* normalizeDict(obj) *)
normalizeDict(obj) == normalize(obj, rb_OUTCOMES)

(* applyStreakBias(probs, history) of redblack_predictor_fixed: adj is normalized *)
rb_applyStreakBias(probs, history) ==
  IF HasStreak(history, rb_OUTCOMES, rb_STREAK_WINDOW)
  THEN normalizeDict(StreakShift(probs, history[Len(history)], rb_OUTCOMES, rb_STREAK_BONUS))
  ELSE probs

(* blended[o] = (1 - MIX_GLOBAL) * baseCond[o] + MIX_GLOBAL * global[o] *)
rb_blended(baseCond, global) ==
  VMix(rb_MIX_GLOBAL.d - rb_MIX_GLOBAL.n, baseCond, rb_MIX_GLOBAL.n, global, rb_MIX_GLOBAL.d)

(* baseCond, global and blended of predictDistribution *)
rb_blendedOf(m) ==
  rb_blended(IF m.lastOutcome # "" THEN normalizeDict(rb_values(m.trans[m.lastOutcome]))
             ELSE normalizeDict(rb_values(m.marg)),
             normalizeDict(rb_values(m.marg)))

(* predictDistribution(historySnapshot) *)
predictDistribution(m, historySnapshot) ==
  normalizeDict(rb_applyStreakBias(rb_blendedOf(m), historySnapshot))

(* argmax(dict) *)
argmax(dict) == FirstMaxFrom(dict, rb_OUTCOMES, 2, rb_OUTCOMES[1])

----------------------------------------------------------------------------
(* redblack_predictor_fixed.cjs: start() and monitorLoop *)

MaxSeen == 3   \* outcomes observed in one run

(* the text of the result element, as words; the first of RED, BLACK, GREEN *)
(* in it is the outcome                                                     *)
rb_RawTexts == { <<"RED">>, <<"RED", "WINS">>, <<"BLACK">>, <<"GREEN">> }
rb_observedIn(rawText) ==
  rawText[CHOOSE j \in 1..Len(rawText) :
            rawText[j] \in rb_O /\ \A k \in 1..(j - 1) : rawText[k] \notin rb_O]

rb_InitFiles ==
  { NoFile, File(<<TokOpenArr, TokOpenObj>>), File(StringifyStrings(<<"RED", "RED">>)) }

(* before the script is started: the file it will find *)
rb_Init(files) ==
  /\ rb_started = FALSE
  /\ rb_file \in files
  /\ rb_outcomesList = <<>>
  /\ rb_model = rb_InitModel
  /\ rb_lastSeenRawText = <<>>
  /\ rb_prevPrediction = ""
  /\ rb_totalPred = 0
  /\ rb_correctPred = 0
  /\ rb_recent = <<>>
  /\ rb_seen = 0
  /\ rb_out = <<>>

(* start(): loadPersistedOutcomes(), then the login and monitorLoop *)
rb_Start ==
  /\ prog = "rb" /\ ~rb_started
  /\ rb_started' = TRUE
  /\ \E l \in {loadPersistedOutcomes(rb_file, rb_outcomesList, rb_model)} :
       /\ rb_outcomesList' = l.outcomesList
       /\ rb_model' = l.model
  /\ UNCHANGED <<prog, fails, sp_vars, iv_vars, rb_file, rb_seen, rb_score>>

(* updateModel(observed); persistOutcome(observed): a failed write is ignored *)
rb_Keep(observed) ==
  /\ prog = "rb" /\ rb_started
  /\ rb_seen < MaxSeen
  /\ rb_seen' = rb_seen + 1
  /\ rb_model' = updateModel(rb_model, observed)
  /\ rb_outcomesList' = rb_pushed(rb_outcomesList, observed)
  /\ \E res \in WriteResults(fails) :
       /\ rb_file' = WriteFile(rb_file, StringifyStrings(rb_outcomesList'), res)
       /\ fails' = IF res = "ok" THEN fails ELSE fails + 1
  /\ UNCHANGED <<prog, sp_vars, iv_vars, rb_started>>

(* recent.push(ok); shift when longer than RECENT_WINDOW *)
(* a window that is full turns the newest value away *)
rb_keepOldest(recent, ok) ==
  IF Len(recent) + 1 > rb_RECENT_WINDOW THEN recent ELSE Append(recent, ok)

rb_pushRecent(recent, ok) ==
  IF Len(recent) + 1 > rb_RECENT_WINDOW THEN Tail(Append(recent, ok)) ELSE Append(recent, ok)

(* one pass of monitorLoop with a new text in the result element: score the *)
(* previous prediction, update and persist, predict the next outcome        *)
rb_Observe(rawText) ==
  /\ rawText # rb_lastSeenRawText
  /\ rb_lastSeenRawText' = rawText
  /\ rb_totalPred' = IF rb_prevPrediction # "" THEN rb_totalPred + 1 ELSE rb_totalPred
  /\ rb_correctPred' = IF rb_prevPrediction = rb_observedIn(rawText) THEN rb_correctPred + 1
                       ELSE rb_correctPred
  /\ rb_recent' = IF rb_prevPrediction # ""
                  THEN rb_pushRecent(rb_recent, rb_prevPrediction = rb_observedIn(rawText))
                  ELSE rb_recent
  /\ rb_Keep(rb_observedIn(rawText))
  /\ \E dist \in {predictDistribution(rb_model', rb_outcomesList')} :
       /\ rb_prevPrediction' = argmax(dist)
       /\ rb_out' = [observed |-> rb_observedIn(rawText), dist |-> dist, pick |-> argmax(dist),
                     warned |-> FALSE]   \* persistOutcome prints nothing when the write fails

rb_Next ==
  \/ rb_Start
  \/ \E rawText \in rb_RawTexts : rb_Observe(rawText)

----------------------------------------------------------------------------
Init ==
  /\ prog \in {"sp", "iv", "rb"}
  /\ fails = 0
  /\ IF prog = "sp" THEN sp_Init(sp_InitFiles, sp_InitWFiles) ELSE sp_Init({NoFile}, {NoFile})
  /\ IF prog = "iv" THEN iv_Init(iv_InitFiles, iv_StartTimes) ELSE iv_Init({NoFile}, {0})
  /\ IF prog = "rb" THEN rb_Init(rb_InitFiles) ELSE rb_Init({NoFile})

Next ==
  \/ sp_Next
  \/ iv_Next
  \/ rb_Next

Spec == Init /\ [][Next]_vars

----------------------------------------------------------------------------
(* loadPersistedOutcomes and updateModel + persistOutcome of                 *)
(* redblack_predictor_fixed.cjs applied to long outcome files                *)

rb_LongLens == {0, 1, 2, 498, 499, 500, 501}
rb_Listed(n) == [i \in 1..n |-> rb_OUTCOMES[(((i * i) % 7) % 3) + 1]]
rb_LongFiles ==
  {NoFile, File(<<TokOpenArr, TokOpenObj>>)}
    \cup {File(StringifyStrings(rb_Listed(n))) : n \in rb_LongLens}

(* a run taken up late: st holds what the passes so far have left *)
rb_InitLate(states) ==
  \E st \in states :
    /\ rb_started = TRUE
    /\ rb_file = File(StringifyStrings(st.list))
    /\ rb_outcomesList = st.list
    /\ rb_model = st.model
    /\ rb_lastSeenRawText = st.last
    /\ rb_prevPrediction = st.prev
    /\ rb_totalPred = st.total
    /\ rb_correctPred = st.correct
    /\ rb_recent = st.recent
    /\ rb_seen = 0
    /\ rb_out = st.out

(* a run that has kept 998, 999 or 1000 outcomes, the file's and those observed *)
(* since, and written them                                                      *)
rb_CapLens == {rb_KeepCap - 2, rb_KeepCap - 1, rb_KeepCap}
rb_CapStates ==
  {[list |-> rb_Listed(n), model |-> rb_replay(rb_InitModel, rb_Listed(n), 1, n), last |-> <<>>,
    prev |-> "", total |-> 0, correct |-> 0, recent |-> <<>>, out |-> <<>>] : n \in rb_CapLens}

InitPersist ==
  /\ prog = "rb"
  /\ fails = 0
  /\ sp_Init({NoFile}, {NoFile})
  /\ iv_Init({NoFile}, {0})
  /\ rb_Init(rb_LongFiles) \/ rb_InitLate(rb_CapStates)

(* lines 229-230 of monitorLoop: updateModel(observed); persistOutcome(observed) *)
rb_Persist(observed) == rb_Keep(observed) /\ UNCHANGED rb_score

NextPersist ==
  \/ rb_Start
  \/ \E observed \in rb_O : rb_Persist(observed)

SpecPersist == InitPersist /\ [][NextPersist]_vars

----------------------------------------------------------------------------
(* walkForwardEvaluate(history, options) of iv-redblack-advanced.cjs applied *)
(* to the stored history cut at every length, with and without a minTrain    *)
(* option                                                                    *)
iv_CutFiles == {File(iv_stringifyHistory(SubSeq(iv_Stored, 1, k))) : k \in 0..Len(iv_Stored)}
iv_Options == {<<>>, <<[minTrain |-> 0]>>, <<[minTrain |-> 12]>>, <<[minTrain |-> 15]>>}

InitEvaluate ==
  /\ prog = "iv"
  /\ fails = 0
  /\ sp_Init({NoFile}, {NoFile})
  /\ iv_Init(iv_CutFiles, iv_StartTimes)
  /\ rb_Init({NoFile})

iv_Evaluate(options) ==
  /\ \E res \in iv_walkForwardEvaluate(loadHistory(iv_file), options, iv_now) :
       iv_out' = [cmd |-> "backtest",
                  shown |-> [kind |-> "backtest", options |-> options, res |-> res]]
  /\ UNCHANGED <<prog, fails, sp_vars, rb_vars, iv_scraping, iv_file, iv_now, iv_model, iv_second,
                 iv_lastPick, iv_totalPred, iv_correctPred, iv_recent>>

NextEvaluate == \E options \in iv_Options : iv_Evaluate(options)

SpecEvaluate == InitEvaluate /\ [][NextEvaluate]_vars

----------------------------------------------------------------------------
(* evaluate and tune of sportypredictor.cjs taken one pass of their loops at *)
(* a time: walkForwardEvaluate one round per step, coarseTune one grid point *)
(* per step, and the process killed between two steps                        *)

(* walkForwardEvaluate before its first pass; history.length < 2 returns at once *)
sp_wfeStart == [rounds |-> 0, correctRounds |-> 0, correctSlots |-> 0, totalSlots |-> 0]

(* evaluate is read: walkForwardEvaluate(history) is entered *)
sp_EvaluateBegin ==
  /\ prog = "sp" /\ sp_running /\ sp_job = sp_Idle
  /\ sp_job' = [at |-> "evaluate", i |-> 0, acc |-> sp_wfeStart]
  /\ sp_out' = sp_Says("evaluate", <<>>, sp_Msg("none"))
  /\ UNCHANGED <<prog, sp_running, sp_history, sp_file, sp_W, sp_wfile, fails, iv_vars, rb_vars>>

(* one pass of the loop of walkForwardEvaluate: prefix.push(history[i]), the *)
(* prediction from the prefix, and the counts                                *)
sp_EvaluateStep ==
  /\ prog = "sp" /\ sp_running /\ sp_job.at = "evaluate"
  /\ Len(sp_history) >= 2 /\ sp_job.i < Len(sp_history) - 1
  /\ \E picks \in {sp_wfePredict(sp_wfeTrainHist(sp_history, sp_job.i + 1), <<>>, sp_W).picks} :
       sp_job' = [at |-> "evaluate", i |-> sp_job.i + 1,
                  acc |-> sp_wfeCount(sp_job.acc,
                            Cardinality({s \in Slots :
                               picks[s] = sp_history[sp_job.i + 2].games[s]}))]
  /\ UNCHANGED <<prog, sp_running, sp_history, sp_file, sp_W, sp_wfile, sp_out, fails, iv_vars,
                 rb_vars>>

(* walkForwardEvaluate returns and evaluate prints the result *)
sp_EvaluateEnd ==
  /\ prog = "sp" /\ sp_running /\ sp_job.at = "evaluate"
  /\ Len(sp_history) < 2 \/ sp_job.i = Len(sp_history) - 1
  /\ sp_job' = sp_Idle
  /\ sp_out' = sp_Says("evaluate", <<>>,
                        [kind |-> "eval",
                         res |-> IF Len(sp_history) < 2
                                 THEN walkForwardEvaluate(sp_history, <<>>, sp_W)
                                 ELSE sp_wfeResult(sp_job.acc)])
  /\ UNCHANGED <<prog, sp_running, sp_history, sp_file, sp_W, sp_wfile, fails, iv_vars, rb_vars>>

(* the best so far is made active at every grid point *)
sp_tuneWeightsAtOnce(W, best, returned) ==
  IF best # <<>> THEN best[1].weights[1] ELSE W

(* W_SLOT..W_STREAK while tune is handled: the handler assigns them from best *)
(* once coarseTune has returned a best                                        *)
sp_tuneWeights(W, best, returned) ==
  IF returned /\ best # <<>> THEN best[1].weights[1] ELSE W

(* tune is read: the handler prints its first line and enters coarseTune; *)
(* history.length < 3 returns null before the loops                       *)
sp_TuneBegin ==
  /\ prog = "sp" /\ sp_running /\ sp_job = sp_Idle
  /\ sp_job' = [at |-> "tune", k |-> IF Len(sp_history) < 3 THEN Len(sp_Grid) + 1 ELSE 1,
                best |-> <<>>]
  /\ sp_out' = sp_Says("tune", <<>>, sp_Msg("Running coarse tuning (this may take a moment)..."))
  /\ UNCHANGED <<prog, sp_running, sp_history, sp_file, sp_W, sp_wfile, fails, iv_vars, rb_vars>>

(* if (score > best.score) best = { score, weights, res }; best.score starts at -1 *)
sp_tuneBetter(best, w, res) ==
  IF best = <<>> \/ RatLt(best[1].score, res.slotAccuracy)
  THEN <<[score |-> res.slotAccuracy, weights |-> <<w>>, res |-> <<res>>]>>
  ELSE best

(* one grid point of coarseTune *)
sp_TuneStep ==
  /\ prog = "sp" /\ sp_running /\ sp_job.at = "tune"
  /\ sp_job.k <= Len(sp_Grid)
  /\ \E best \in {sp_tuneBetter(sp_job.best, sp_Grid[sp_job.k],
                                  walkForwardEvaluate(sp_history, <<sp_Grid[sp_job.k]>>, sp_W))} :
       /\ sp_job' = [at |-> "tune", k |-> sp_job.k + 1, best |-> best]
       /\ sp_W' = sp_tuneWeights(sp_W, best, FALSE)
  /\ UNCHANGED <<prog, sp_running, sp_history, sp_file, sp_wfile, sp_out, fails, iv_vars, rb_vars>>

(* coarseTune returns; the handler prints and applies best, or says there is *)
(* not enough history                                                        *)
sp_TuneEnd ==
  /\ prog = "sp" /\ sp_running /\ sp_job.at = "tune"
  /\ sp_job.k = Len(sp_Grid) + 1
  /\ sp_job' = sp_Idle
  /\ sp_W' = sp_tuneWeights(sp_W, sp_job.best, TRUE)
  /\ sp_out' = sp_Says("tune", <<>>,
                        IF sp_job.best = <<>>
                        THEN sp_Msg("Not enough history (need at least 3 rounds).")
                        ELSE [kind |-> "tuned", score |-> sp_job.best[1].score,
                              weights |-> sp_job.best[1].weights[1]])
  /\ UNCHANGED <<prog, sp_running, sp_history, sp_file, sp_wfile, fails, iv_vars, rb_vars>>

(* the process is killed while the handler is in one of the loops: its memory *)
(* ends with it, the files stay                                              *)
sp_Interrupt ==
  /\ prog = "sp" /\ sp_running /\ sp_job # sp_Idle
  /\ sp_running' = FALSE
  /\ sp_history' = <<>>
  /\ sp_W' = sp_DefaultWeights
  /\ sp_job' = sp_Idle
  /\ sp_out' = sp_Says("interrupt", <<>>, [kind |-> "killed", job |-> sp_job])
  /\ UNCHANGED <<prog, sp_file, sp_wfile, fails, iv_vars, rb_vars>>

(* the history files the stepped commands are run on, and weights files *)
sp_StepFiles ==
  {NoFile} \cup {File(sp_stringifyHistory([i \in 1..Len(g) |-> [ts |-> i, games |-> g[i]]])) :
                   g \in sp_GameHistories}

InitSteps ==
  /\ prog = "sp"
  /\ fails = 0
  /\ sp_Init(sp_StepFiles, sp_InitWFiles)
  /\ iv_Init({NoFile}, {0})
  /\ rb_Init({NoFile})

NextSteps ==
  \/ sp_Start
  \/ sp_LoadWeights
  \/ sp_EvaluateBegin
  \/ sp_EvaluateStep
  \/ sp_EvaluateEnd
  \/ sp_TuneBegin
  \/ sp_TuneStep
  \/ sp_TuneEnd
  \/ sp_Interrupt

SpecSteps == InitSteps /\ [][NextSteps]_vars

----------------------------------------------------------------------------
(* iv-redblack-advanced.cjs when scrape is typed a second time: the line     *)
(* handler awaits runScrapeAndPredictLoop, which never returns, and readline *)
(* keeps calling the handler for the lines typed meanwhile. A pass of a loop *)
(* has no await between reading the outcome and lastPick = pick, so passes   *)
(* of the two loops follow one another in any order.                         *)

(* scrape while the first loop runs: a second runScrapeAndPredictLoop *)
iv_ScrapeAgain ==
  /\ prog = "iv" /\ iv_scraping /\ ~iv_second.on
  /\ \E model \in iv_retrain(<<>>, loadHistory(iv_file),
                              Len(loadHistory(iv_file)) > (IF 30 > N_WINDOW THEN 30 ELSE N_WINDOW),
                              iv_now) :
       iv_second' = [on |-> TRUE, model |-> model]
  /\ iv_out' = [cmd |-> "scrape", shown |-> [kind |-> "none"]]
  /\ UNCHANGED <<prog, fails, sp_vars, rb_vars, iv_scraping, iv_file, iv_now, iv_model, iv_lastPick,
                 iv_totalPred, iv_correctPred, iv_recent>>

InitLoops ==
  /\ prog = "iv"
  /\ fails = 0
  /\ sp_Init({NoFile}, {NoFile})
  /\ iv_Init(iv_InitFiles, iv_StartTimes)
  /\ rb_Init({NoFile})

NextLoops ==
  \/ iv_Scrape
  \/ iv_ScrapeAgain
  \/ \E loop \in {1, 2}, observed \in iv_O : iv_PassOf(loop, observed)

SpecLoops == InitLoops /\ [][NextLoops]_vars

----------------------------------------------------------------------------
(* sportypredictor.cjs and iv-redblack-advanced.cjs started on a history  *)
(* file that cannot be parsed: the text of a stored history that ends     *)
(* before the closing bracket, as a write that was cut short leaves it    *)

(* a file's text without its last token *)
Torn(file) == File(SubSeq(file.text, 1, Len(file.text) - 1))

sp_StoredTwo == <<[ts |-> 1, games |-> sp_Round1], [ts |-> 1, games |-> sp_Round1]>>
sp_TornFiles ==
  {File(sp_stringifyHistory(sp_StoredTwo)), Torn(File(sp_stringifyHistory(sp_StoredTwo)))}
iv_TornFiles ==
  {File(iv_stringifyHistory(iv_Stored)), Torn(File(iv_stringifyHistory(iv_Stored)))}

InitTorn ==
  /\ prog \in {"sp", "iv"}
  /\ fails = 0
  /\ IF prog = "sp" THEN sp_Init(sp_TornFiles, {NoFile}) ELSE sp_Init({NoFile}, {NoFile})
  /\ IF prog = "iv" THEN iv_Init(iv_TornFiles, iv_StartTimes) ELSE iv_Init({NoFile}, {0})
  /\ rb_Init({NoFile})

NextTorn ==
  \/ sp_Start
  \/ \E raw \in sp_RawInputs : sp_Add(raw)
  \/ iv_Scrape
  \/ \E observed \in iv_O : iv_Pass(observed)

SpecTorn == InitTorn /\ [][NextTorn]_vars

----------------------------------------------------------------------------
(* The live loops late in a run, when the sliding accuracy window fills up. *)
(* redblack_predictor_fixed.cjs is taken up after a run of the passes of    *)
(* monitorLoop over a given sequence of result texts; rb_seen then counts   *)
(* the outcomes observed from there on.                                     *)

(* the script's state before the first pass *)
rb_Fresh ==
  [list |-> <<>>, model |-> rb_InitModel, last |-> <<>>, prev |-> "", total |-> 0,
   correct |-> 0, recent |-> <<>>, out |-> <<>>]

(* one pass of monitorLoop whose write succeeds, on the state st: the *)
(* outcome is scored, kept, and the next one predicted                *)
rb_passedWith(st, rawText, observed, model, list, dist) ==
  [list |-> list, model |-> model, last |-> rawText, prev |-> argmax(dist),
   total |-> IF st.prev # "" THEN st.total + 1 ELSE st.total,
   correct |-> IF st.prev = observed THEN st.correct + 1 ELSE st.correct,
   recent |-> IF st.prev # "" THEN rb_pushRecent(st.recent, st.prev = observed) ELSE st.recent,
   out |-> [observed |-> observed, dist |-> dist, pick |-> argmax(dist), warned |-> FALSE]]

rb_passedOn(st, rawText, observed, model, list) ==
  rb_passedWith(st, rawText, observed, model, list, predictDistribution(model, list))

rb_passed(st, rawText) ==
  CHOOSE r \in { rb_passedOn(st, rawText, rb_observedIn(rawText), m, l) :
                    m \in {updateModel(st.model, rb_observedIn(rawText))},
                    l \in {rb_pushed(st.list, rb_observedIn(rawText))} } : TRUE

(* the passes over the texts lo..hi of a script, the first half, then the second *)
RECURSIVE rb_ran(_, _, _, _)
rb_ran(st, script, lo, hi) ==
  IF lo > hi THEN st
  ELSE IF lo = hi THEN rb_passed(st, script[lo])
  ELSE CHOOSE r \in { rb_ran(l, script, (lo + hi) \div 2 + 1, hi) :
                         l \in {rb_ran(st, script, lo, (lo + hi) \div 2)} } : TRUE

(* sequences of result texts, no two in a row the same: RED every time; RED, *)
(* BLACK, GREEN in turn; RED and BLACK in turn with GREEN every seventh      *)
rb_Script(kind, n) ==
  [i \in 1..n |->
    CASE kind = 1 -> IF i % 2 = 1 THEN <<"RED">> ELSE <<"RED", "WINS">>
      [] kind = 2 -> <<rb_OUTCOMES[(i % 3) + 1]>>
      [] OTHER -> IF i % 7 = 0 THEN <<"GREEN">> ELSE IF i % 2 = 1 THEN <<"RED">> ELSE <<"BLACK">>]

rb_ScriptLens == {19, 20, 21}
rb_LateStates ==
  {rb_ran(rb_Fresh, rb_Script(kind, n), 1, n) : kind \in 1..3, n \in rb_ScriptLens}

InitScore ==
  /\ prog \in {"iv", "rb"}
  /\ fails = 0
  /\ sp_Init({NoFile}, {NoFile})
  /\ IF prog = "iv" THEN iv_Init(iv_InitFiles, iv_StartTimes) ELSE iv_Init({NoFile}, {0})
  /\ IF prog = "rb" THEN rb_InitLate(rb_LateStates) ELSE rb_Init({NoFile})

NextScore ==
  \/ iv_Scrape
  \/ \E observed \in iv_O : iv_Pass(observed)
  \/ \E rawText \in rb_RawTexts : rb_Observe(rawText)

SpecScore == InitScore /\ [][NextScore]_vars

----------------------------------------------------------------------------
(* Properties *)

(* a distribution over the alphabet: entries in [0,1] that sum to 1 *)
IsDistribution(v, alphabet) == SumsToOne(v, alphabet) /\ InUnit(v)

(* C1: every per-slot distribution an ensemble combiner returns             *)
(* (predictEnsemble, ensemblePredict, predictDistribution), for every       *)
(* history and every configuration of the weights, has its entries in [0,1] *)
(* and summing to 1.                                                        *)
C1_EnsembleNormalized ==
  /\ sp_out.shown.kind = "pred"
       => \A s \in Slots : IsDistribution(sp_out.shown.probs[s], sp_OUTCOMES)
  /\ iv_out.shown.kind = "pred" => IsDistribution(iv_out.shown.dist, iv_OUTCOMES)
  /\ rb_out # <<>> => IsDistribution(rb_out.dist, rb_OUTCOMES)

(* C2: for every history, the empty one included, every distribution of a  *)
(* sub-model sums to 1: the decayed marginal and every Markov row of        *)
(* iv-redblack-advanced, and every slot posterior, the global posterior,    *)
(* every Markov row and every pattern-table entry of buildModels.           *)
C2_SpModels(models) ==
  /\ \A s \in Slots : SumsToOne(models.slotPosteriors[s], sp_OUTCOMES)
  /\ SumsToOne(models.globalPosterior, sp_OUTCOMES)
  /\ \A s \in Slots, prev \in sp_O : SumsToOne(models.markovProbs[s][prev], sp_OUTCOMES)
  /\ \A key \in DOMAIN models.patternProbs, s \in Slots :
       SumsToOne(models.patternProbs[key][s], sp_OUTCOMES)

C2_IvModels(history) ==
  /\ SumsToOne(buildMarginal(history), iv_OUTCOMES)
  /\ \A a \in iv_O : SumsToOne(buildMarkov(history)[a], iv_OUTCOMES)

C2_SubModelsNormalized ==
  /\ (prog = "sp" /\ sp_running) => C2_SpModels(sp_ModelsTable[sp_Games(sp_history)])
  /\ prog = "iv" => \A h \in {loadHistory(iv_file)} : C2_IvModels(h)

(* C3: with an empty history and the default configuration (the default     *)
(* weights; no trained classifier) the predict command prints a prediction, *)
(* not an error, and every distribution of it is uniform over the alphabet. *)
C3_EmptyHistoryUniform ==
  /\ (sp_out.cmd = "predict" /\ sp_history = <<>> /\ sp_W = sp_DefaultWeights)
       => /\ sp_out.shown.kind = "pred"
          /\ \A s \in Slots : IsUniform(sp_out.shown.probs[s])
  /\ (iv_out.cmd = "predict" /\ loadHistory(iv_file) = <<>> /\ iv_out.shown.model = <<>>)
       => /\ iv_out.shown.kind = "pred"
          /\ IsUniform(iv_out.shown.dist)

C3_Witness ==
  /\ sp_out.cmd = "predict" /\ sp_history = <<>> /\ sp_W = sp_DefaultWeights
  /\ sp_out.shown.kind = "pred"
  /\ BMulSmall(sp_out.shown.probs[1].n["G"], 3) = sp_out.shown.probs[1].d

(* C4: when the last streakWindow outcomes (of a slot) are all the alphabet *)
(* member v, the streak adjustment does not raise the probability of v, and *)
(* lowers it by at most streakBonus, whatever the distribution it is given  *)
(* and whatever the weights.                                                *)
C4_Bounded(pre, post, v, bonus) ==
  /\ BLe(BMul(post.n[v], pre.d), BMul(pre.n[v], post.d))
  /\ BLe(BMulSmall(BSub(BMul(pre.n[v], post.d), BMul(post.n[v], pre.d)), bonus.d),
         BMulSmall(BMul(pre.d, post.d), bonus.n))

C4_Sp(pre, s) ==
  C4_Bounded(pre, applyStreakAdjustment(pre, sp_history, s),
             sp_history[Len(sp_history)].games[s], sp_STREAK_BONUS)

C4_Iv(pre, outs) ==
  C4_Bounded(pre, iv_applyStreakBias(pre, outs), outs[Len(outs)], iv_STREAK_BONUS)

C4_Rb(pre) ==
  C4_Bounded(pre, rb_applyStreakBias(pre, rb_outcomesList),
             rb_outcomesList[Len(rb_outcomesList)], rb_STREAK_BONUS)

C4_StreakBound ==
  /\ (prog = "sp" /\ sp_running)
       => \A s \in Slots :
            sp_StreakAt(sp_history, s)
              => \A pre \in {sp_combined(sp_Prepared(sp_history), sp_W, s)} : C4_Sp(pre, s)
  /\ prog = "iv"
       => \A outs \in {iv_Outcomes(loadHistory(iv_file))} :
            HasStreak(outs, iv_OUTCOMES, iv_STREAK_WINDOW)
              => \A model \in {<<>>} \cup iv_Models :
                   \A pre \in {iv_BlendTable[outs][model]} : C4_Iv(pre, outs)
  /\ (prog = "rb" /\ HasStreak(rb_outcomesList, rb_OUTCOMES, rb_STREAK_WINDOW))
       => \A pre \in {rb_blendedOf(rb_model)} : C4_Rb(pre)

(* C5: when two or more outcomes tie for the maximum of a printed           *)
(* distribution (within 1e-9), every one of them is among the picks the     *)
(* program can make from it: the pick is not fixed by the order of the      *)
(* alphabet.                                                                *)
C5_Tied(dist) ==
  {o \in DOMAIN dist.n :
     \A q \in DOMAIN dist.n :
       \/ BLe(dist.n[q], dist.n[o])
       \/ BLe(BMul(BSub(dist.n[q], dist.n[o]), BFromInt(1000000000)), dist.d)}

C5_TiedPicksPossible ==
  /\ sp_out.shown.kind = "pred"
       => \A s \in Slots :
            \A dist \in {sp_out.shown.probs[s]} : C5_Tied(dist) \subseteq {sp_argmax(dist)}
  /\ iv_out.shown.kind = "pred"
       => \A dist \in {iv_out.shown.dist} : C5_Tied(dist) \subseteq argmaxWithRandomTie(dist)
  /\ rb_out # <<>>
       => \A dist \in {rb_out.dist} : C5_Tied(dist) \subseteq {argmax(dist)}

(* C6: when walkForwardEvaluate has run (evaluate, backtest), the training  *)
(* history, the training set and the prediction of every round i are the    *)
(* same for a history that agrees with the evaluated one on all entries     *)
(* before i, whatever its entries from i on are.                            *)
C6_SpVariants(h, i) ==
  {[j \in 1..Len(h) |-> IF j <= i THEN h[j] ELSE [ts |-> h[j].ts, games |-> r]] : r \in sp_Rounds}

C6_IvVariants(h, i) ==
  {[j \in 1..Len(h) |-> IF j <= i THEN h[j] ELSE [ts |-> h[j].ts + 1, outcome |-> o]] : o \in iv_O}

(* what round i is predicted from: the training history, the prediction *)
C6_SpRound(h, i) ==
  [trainHist |-> sp_wfeTrainHist(h, i),
   pred |-> sp_wfePredict(sp_wfeTrainHist(h, i), <<>>, sp_W)]

(* the training history, the training set X, Y and the picks it can lead to *)
C6_IvRound(h, i) ==
  [trainHist |-> iv_wfeTrainHist(h, i),
   samples |-> iv_samples(iv_wfeTrainHist(h, i), iv_now),
   picks |-> iv_wfePicks(iv_wfeTrainHist(h, i), iv_now)]

C6_Iv(h) ==
  \A i \in iv_minTrain..(Len(h) - 1) :
    \A round \in {C6_IvRound(h, i)} :
      \A h2 \in C6_IvVariants(h, i) : C6_IvRound(h2, i) = round

C6_LeakageFree ==
  /\ sp_out.cmd = "evaluate"
       => \A i \in 1..(Len(sp_history) - 1) :
            \A round \in {C6_SpRound(sp_history, i)} :
              \A h2 \in C6_SpVariants(sp_history, i) : C6_SpRound(h2, i) = round
  /\ iv_out.cmd = "backtest" => \A h \in {loadHistory(iv_file)} : C6_Iv(h)

C6_Witness ==
  /\ sp_out.cmd = "evaluate" /\ Len(sp_history) = 3
  /\ sp_out.shown.res.rounds = 2
  /\ \E h2 \in C6_SpVariants(sp_history, 1) : h2[2].games # sp_history[2].games

(* C7: when outcome a occurs with a successor and every such occurrence is  *)
(* followed by b, the Markov distribution conditioned on a gives b a        *)
(* strictly greater probability than every other outcome.                   *)
C7_Followed(list, a, b) ==
  /\ \E i \in 1..(Len(list) - 1) : list[i] = a
  /\ \A i \in 1..(Len(list) - 1) : list[i] = a => list[i + 1] = b

C7_Favours(dist, b) == \A o \in DOMAIN dist.n \ {b} : BLt(dist.n[o], dist.n[b])

C7_SlotOutcomes(history, s) == [i \in 1..Len(history) |-> history[i].games[s]]

C7_Iv(history) ==
  \A a \in iv_O, b \in iv_O :
    C7_Followed(iv_Outcomes(history), a, b)
      => \A row \in {buildMarkov(history)[a]} : C7_Favours(row, b)

C7_MarkovFavoursSuccessor ==
  /\ (prog = "sp" /\ sp_running)
       => \A s \in Slots, a \in sp_O, b \in sp_O :
            C7_Followed(C7_SlotOutcomes(sp_history, s), a, b)
              => \A row \in {sp_ModelsTable[sp_Games(sp_history)].markovProbs[s][a]} :
                   C7_Favours(row, b)
  /\ prog = "iv" => \A h \in {loadHistory(iv_file)} : C7_Iv(h)

C7_Witness ==
  /\ prog = "iv"
  /\ iv_Outcomes(loadHistory(iv_file)) = <<"RED", "BLACK", "RED">>
  /\ C7_Favours(buildMarkov(loadHistory(iv_file))["RED"], "BLACK")

(* C8: a persisted history, reloaded, is the history in memory, and the     *)
(* models rebuilt from the reloaded history are the models in memory.       *)
C8_RbReloaded(l) ==
  /\ l.outcomesList = rb_outcomesList
  /\ l.model.marg = rb_model.marg
  /\ l.model.trans = rb_model.trans

C8_RoundTrip ==
  /\ (prog = "sp" /\ sp_running /\ sp_file = File(sp_stringifyHistory(sp_history)))
       => loadHistory(sp_file) = sp_history
  /\ (prog = "rb" /\ rb_started /\ rb_file = File(StringifyStrings(rb_outcomesList)))
       => C8_RbReloaded(loadPersistedOutcomes(rb_file, <<>>, rb_InitModel))

(* C9: an input round whose token count is not K, or that holds a token     *)
(* outside the alphabet, is answered with an error and leaves the history   *)
(* and the history file as they were; every entry of the history is a       *)
(* K-tuple of alphabet members.                                             *)
C9_IsSep(c) == c = "," \/ IsSpace(c)

C9_TokenStarts(raw) ==
  {j \in 1..Len(raw) : ~C9_IsSep(raw[j]) /\ (j = 1 \/ C9_IsSep(raw[j - 1]))}

C9_WellFormed(raw) ==
  /\ Cardinality(C9_TokenStarts(raw)) = GAMES_PER_ROUND
  /\ \A j \in C9_TokenStarts(raw) :
       /\ ToUpperCase(raw[j]) \in sp_O
       /\ (j = Len(raw) \/ C9_IsSep(raw[j + 1]))

C9_IsRound(games) ==
  /\ DOMAIN games = 1..GAMES_PER_ROUND
  /\ \A j \in 1..GAMES_PER_ROUND : games[j] \in sp_O

C9_MalformedRejected ==
  /\ [](\A i \in 1..Len(sp_history) : C9_IsRound(sp_history[i].games))
  /\ [][(sp_out'.cmd = "add" /\ ~C9_WellFormed(sp_out'.arg))
          => (sp_out'.shown.kind = "error" /\ sp_history' = sp_history /\ sp_file' = sp_file)]_vars

C9_Witness ==
  /\ sp_out.cmd = "add" /\ sp_out.shown.kind = "error" /\ sp_out.shown.text = "alphabet"
  /\ Cardinality(C9_TokenStarts(sp_out.arg)) = GAMES_PER_ROUND
  /\ sp_history # <<>>

(* C10: a command changes the history only by appending one round at the    *)
(* end (add, record), removing the last round (undo) or clearing it         *)
(* (reset); predict, show, evaluate, tune, config, saveweights, loadweights *)
(* and help leave it unchanged.                                             *)
C10_Appended(h, h2) == Len(h2) = Len(h) + 1 /\ SubSeq(h2, 1, Len(h)) = h

C10_SpStep ==
  prog = "sp" =>
    CASE sp_out'.cmd = "add" -> sp_history' = sp_history \/ C10_Appended(sp_history, sp_history')
      [] sp_out'.cmd = "undo" ->
           \/ sp_history = <<>> /\ sp_history' = <<>>
           \/ C10_Appended(sp_history', sp_history)
      [] sp_out'.cmd = "reset" -> sp_history' = <<>>
      [] sp_out'.cmd \in {"", "exit"} -> TRUE
      [] OTHER -> sp_history' = sp_history

C10_IvStep ==
  prog = "iv" =>
    \/ loadHistory(iv_file') = loadHistory(iv_file)
    \/ iv_out'.cmd = "pass" /\ C10_Appended(loadHistory(iv_file), loadHistory(iv_file'))

C10_HistoryStep == [][C10_SpStep /\ C10_IvStep]_vars

C10_Witness ==
  /\ sp_out.cmd = "undo" /\ sp_out.shown.text = "Removed last round."
  /\ Len(sp_history) = 2
  /\ sp_history[1].games # sp_history[2].games

----------------------------------------------------------------------------
(* C11: no distribution the programs print holds NaN or Infinity, whatever *)
(* the history and whatever weights the commands have stored (the          *)
(* defaults, those tune finds, those loadweights reads from a weights file *)
(* that parses).                                                           *)
C11_NoNaN ==
  /\ (sp_out.shown.kind = "pred") => \A s \in Slots : ~IsNaN(sp_out.shown.probs[s])
  /\ (iv_out.shown.kind = "pred") => ~IsNaN(iv_out.shown.dist)
  /\ (rb_out # <<>>) => ~IsNaN(rb_out.dist)

----------------------------------------------------------------------------
(* C12: a step in which the write of the persisted history fails (add, undo, *)
(* reset, or the recording of a live outcome) reports the failure, and the   *)
(* history the program goes on with reflects the operation: the round or     *)
(* outcome is appended, the last round removed, the history emptied.         *)
C12_SpStep ==
  (prog = "sp" /\ fails' = fails + 1 /\ sp_out'.cmd \in {"add", "undo", "reset"})
    => /\ sp_out'.shown.kind = "error"
       /\ sp_out'.cmd = "add" => /\ Len(sp_history') = Len(sp_history) + 1
                                 /\ SubSeq(sp_history', 1, Len(sp_history)) = sp_history
       /\ sp_out'.cmd = "undo" => sp_history' = SubSeq(sp_history, 1, Len(sp_history) - 1)
       /\ sp_out'.cmd = "reset" => sp_history' = <<>>

C12_IvStep ==
  (prog = "iv" /\ fails' = fails + 1)
    => /\ iv_out'.shown.kind = "error"
       /\ Len(loadHistory(iv_file')) = Len(loadHistory(iv_file)) + 1

C12_RbStep ==
  (prog = "rb" /\ fails' = fails + 1)
    => /\ rb_out'.warned
       /\ rb_outcomesList' = Append(rb_outcomesList, rb_out'.observed)

C12_WriteFailureKept == [][C12_SpStep /\ C12_IvStep /\ C12_RbStep]_vars

----------------------------------------------------------------------------
(* C13: when an outcome appears exactly once in a history (in a slot of it) *)
(* and that occurrence is moved one position towards the end, every other   *)
(* entry staying where it was, the decayed weight counted for the outcome   *)
(* becomes strictly greater.                                                *)
C13_Swap(h, i) ==
  [j \in 1..Len(h) |-> IF j = i THEN h[i + 1] ELSE IF j = i + 1 THEN h[i] ELSE h[j]]

C13_OnceAt(list, i) == {j \in 1..Len(list) : list[j] = list[i]} = {i}

C13_Sp(h) ==
  \A s \in Slots, i \in 1..(Len(h) - 1) :
    C13_OnceAt([j \in 1..Len(h) |-> h[j].games[s]], i)
      => \A before \in {sp_slotCounts(h, s)}, after \in {sp_slotCounts(C13_Swap(h, i), s)} :
           /\ before.d = after.d
           /\ BLt(before.n[h[i].games[s]], after.n[h[i].games[s]])

C13_Iv(h) ==
  \A i \in 1..(Len(h) - 1) :
    C13_OnceAt(iv_Outcomes(h), i)
      => \A before \in {iv_margCounts(h)}, after \in {iv_margCounts(C13_Swap(h, i))} :
           /\ before.d = after.d
           /\ BLt(before.n[h[i].outcome], after.n[h[i].outcome])

C13_DecayMonotone ==
  /\ (prog = "sp" /\ sp_running) => C13_Sp(sp_history)
  /\ prog = "iv" => \A h \in {loadHistory(iv_file)} : C13_Iv(h)

C13_Witness ==
  /\ prog = "sp" /\ Len(sp_history) = MaxLen
  /\ C13_OnceAt([j \in 1..Len(sp_history) |-> sp_history[j].games[2]], 1)
  /\ C13_Sp(sp_history)

----------------------------------------------------------------------------
(* C14: when the last streakWindow outcomes (of a slot) are all the alphabet *)
(* member v, the streak adjustment takes exactly min(streakBonus, p[v]/2)    *)
(* from v and gives it in equal shares to the other outcomes, so that the    *)
(* mass is kept; after renormalization the distribution it returns is that   *)
(* shifted distribution, entry for entry.                                    *)
(* C14_Shifted: the numerators of the shifted distribution over the          *)
(* denominator pre.d * 2 * bonus.d * m, m the number of other outcomes.      *)
C14_Shifted(pre, v, O, bonus) ==
  LET m == Cardinality(O \ {v})
      share == BMin(BMulSmall(pre.d, 2 * bonus.n), BMulSmall(pre.n[v], bonus.d))
  IN  [o \in O |-> IF o = v THEN BSub(BMulSmall(pre.n[v], 2 * bonus.d * m), BMulSmall(share, m))
                   ELSE BAdd(BMulSmall(pre.n[o], 2 * bonus.d * m), share)]

C14_Exact(pre, post, v, alphabet, bonus) ==
  LET O == {alphabet[i] : i \in DOMAIN alphabet}
  IN  \A e \in {[n |-> C14_Shifted(pre, v, O, bonus), d |-> BOne]} :
        \A se \in {VSum(e, alphabet)}, sp \in {VSum(post, alphabet)} :
          \A o \in O : BMul(post.n[o], se) = BMul(e.n[o], sp)

C14_StreakExact ==
  /\ (prog = "sp" /\ sp_running)
       => \A s \in Slots :
            sp_StreakAt(sp_history, s)
              => \A pre \in {sp_combined(sp_Prepared(sp_history), sp_W, s)} :
                   C14_Exact(pre, applyStreakAdjustment(pre, sp_history, s),
                             sp_history[Len(sp_history)].games[s], sp_OUTCOMES, sp_STREAK_BONUS)
  /\ prog = "iv"
       => \A outs \in {iv_Outcomes(loadHistory(iv_file))} :
            HasStreak(outs, iv_OUTCOMES, iv_STREAK_WINDOW)
              => \A model \in {<<>>} \cup iv_Models :
                   \A pre \in {iv_BlendTable[outs][model]} :
                     C14_Exact(pre, iv_applyStreakBias(pre, outs), outs[Len(outs)],
                               iv_OUTCOMES, iv_STREAK_BONUS)
  /\ (prog = "rb" /\ HasStreak(rb_outcomesList, rb_OUTCOMES, rb_STREAK_WINDOW))
       => \A pre \in {rb_blendedOf(rb_model)} :
            C14_Exact(pre, rb_applyStreakBias(pre, rb_outcomesList),
                      rb_outcomesList[Len(rb_outcomesList)], rb_OUTCOMES, rb_STREAK_BONUS)

----------------------------------------------------------------------------
(* C15: the coefficients predictEnsemble applies to its source distributions *)
(* in the blend, for the weights in use, are non-negative and sum to 1.  The *)
(* coefficients are read off the blend itself: with the three sources of a   *)
(* slot putting all their mass on R, B and G in turn, combined holds the     *)
(* coefficient of the slot, the Markov and the pattern source.               *)
C15_On(o) == [x \in sp_O |-> IF x = o THEN BOne ELSE BZero]

C15_Probe ==
  [s \in Slots |-> [slot |-> C15_On("R"), markov |-> C15_On("B"), pattern |-> C15_On("G"),
                    hasPattern |-> TRUE, d |-> BOne]]

C15_CoefficientsSumToOne ==
  (prog = "sp" /\ sp_running)
    => \A applied \in {sp_combined(C15_Probe, sp_W, 1)} : SumsToOne(applied, sp_OUTCOMES)

----------------------------------------------------------------------------
(* C16: in the live loop, when the history gives fewer training samples than *)
(* the minimum (more than 10 are needed) no classifier is trained and the    *)
(* distribution printed is the ensemble with the uniform classifier term;    *)
(* in walkForwardEvaluate every round from minTrain on still gets a          *)
(* prediction, whatever the size of its training set.                        *)
C16_Live ==
  (iv_out.cmd = "pass" /\ iv_out.shown.kind = "pred")
    => \A h \in {loadHistory(iv_file)} :
         Len(h) - N_WINDOW <= 10
           => /\ iv_model = <<>>
              /\ iv_out.shown.dist = iv_Predicted(h, <<>>)

C16_Backtest ==
  iv_out.cmd = "backtest"
    => \A n \in {Len(loadHistory(iv_file))}, k \in {iv_minTrainOf(iv_out.shown.options)} :
         iv_out.shown.res.tested = IF n > k THEN n - k ELSE 0

----------------------------------------------------------------------------
(* C17: buildFeatureFromHistory(history, i) depends only on the entries     *)
(* before i and on i: for the history a command has just read, every index  *)
(* i gives the same vector on the history cut at i as on the whole history, *)
(* and the same vector at every time of the call.                           *)
C17_At(h, i) ==
  /\ buildFeatureFromHistory(h, i, iv_now) = buildFeatureFromHistory(SubSeq(h, 1, i), i, iv_now)
  /\ \A t \in iv_StartTimes :
       buildFeatureFromHistory(h, i, t) = buildFeatureFromHistory(h, i, iv_now)

C17_FeaturePure ==
  (prog = "iv" /\ iv_out.cmd \in {"pass", "predict", "backtest"})
    => \A h \in {loadHistory(iv_file)} : \A i \in 0..Len(h) : C17_At(h, i)

----------------------------------------------------------------------------
(* C18: after any sequence of observations every decayed counter (the       *)
(* marginal counts and every cell of the transition table) is at least the  *)
(* Dirichlet prior ALPHA.  iv-redblack-advanced.cjs names no prior: there   *)
(* the counters are required to be positive, which any prior implies.       *)
C18_AtLeast(counts, alpha) ==
  \A o \in DOMAIN counts.n : BLe(BMulSmall(counts.d, alpha.n), BMulSmall(counts.n[o], alpha.d))

C18_Sp == \A s \in Slots : C18_AtLeast(sp_slotCounts(sp_history, s), sp_ALPHA)

C18_Iv ==
  \A h \in {loadHistory(iv_file)} : h # <<>> => \A o \in iv_O : iv_margCounts(h).n[o] # BZero

C18_Rb ==
  /\ C18_AtLeast(rb_values(rb_model.marg), rb_ALPHA)
  /\ \A a \in rb_O : C18_AtLeast(rb_values(rb_model.trans[a]), rb_ALPHA)

C18_PriorIsFloor ==
  /\ (prog = "sp" /\ sp_running) => C18_Sp
  /\ (prog = "iv" /\ iv_out.cmd \in {"pass", "predict", "backtest"}) => C18_Iv
  /\ (prog = "rb" /\ rb_started /\ rb_seen > 0) => C18_Rb

----------------------------------------------------------------------------
(* C19: after any sequence of observed outcomes the counters updateModel    *)
(* has brought up to date, marg and every row of trans, equal the counters  *)
(* of a full rebuild from the sequence: ALPHA plus the sum of DECAY^age     *)
(* over the occurrences, age counted from the most recent outcome.          *)
(* C19_Rebuilt: that reference, for the occurrences at the indices I(o).    *)
C19_Rebuilt(list, I(_)) ==
  LET n == Len(list)
      w == DecayWeights(rb_DECAY, n)
      wden == WeightDen(rb_DECAY, n)
  IN  [n |-> [o \in rb_O |-> BAdd(BMulSmall(wden, rb_ALPHA.n),
                                  BMulSmall(SumIn(w, I(o), n), rb_ALPHA.d))],
       d |-> BMulSmall(wden, rb_ALPHA.d)]

C19_Same(a, b) == \A o \in rb_O : BMul(a.n[o], b.d) = BMul(b.n[o], a.d)

C19_Marg(list) ==
  LET I(o) == {i \in 1..Len(list) : list[i] = o}
  IN  C19_Same(rb_values(rb_model.marg), C19_Rebuilt(list, I))

C19_Trans(list, a) ==
  LET I(o) == {i \in 2..Len(list) : list[i - 1] = a /\ list[i] = o}
  IN  C19_Same(rb_values(rb_model.trans[a]), C19_Rebuilt(list, I))

C19_IncrementalIsRebuild ==
  (prog = "rb" /\ rb_started /\ \A i \in 1..Len(rb_outcomesList) : rb_outcomesList[i] \in rb_O)
    => /\ C19_Marg(rb_outcomesList)
       /\ \A a \in rb_O : C19_Trans(rb_outcomesList, a)

----------------------------------------------------------------------------
(* C20: the pattern term of the blend.  When no round of the history follows *)
(* a round equal to the most recent one (the pattern table has no entry for  *)
(* it), the term of every slot is the normalized pattern weight times the    *)
(* slot's marginal blended with the global marginal; when the table has the  *)
(* entry, it is that weight times the table's distribution for the slot.     *)
(* C20_Term: the pattern term, the blend minus the blend without the pattern *)
(* weight, as numerators over den.                                           *)
C20_Seen(h) == \E i \in 1..(Len(h) - 1) : h[i].games = h[Len(h)].games

C20_SlotWithGlobal(models, s) ==
  LET sl == models.slotPosteriors[s]
      gl == models.globalPosterior
  IN  [n |-> [o \in sp_O |->
               BAdd(BMulSmall(BMul(sl.n[o], gl.d), sp_MIX_GLOBAL.d - sp_MIX_GLOBAL.n),
                    BMulSmall(BMul(gl.n[o], sl.d), sp_MIX_GLOBAL.n))],
       d |-> BMulSmall(BMul(sl.d, gl.d), sp_MIX_GLOBAL.d)]

C20_Term(prep, W, s) ==
  LET with == sp_combined(prep, W, s)
      without == sp_combined(prep, [W EXCEPT !.pattern = 0], s)
  IN  [n |-> [o \in sp_O |-> BSub(with.n[o], without.n[o])], d |-> with.d]

C20_Is(term, weight, sumW, dist) ==
  \A o \in sp_O :
    BMul(BMulSmall(term.n[o], sumW), dist.d) = BMul(BMulSmall(dist.n[o], weight), term.d)

C20_Applies ==
  /\ prog = "sp" /\ sp_running
  /\ sp_W.undef = {}
  /\ sp_W.slot + sp_W.markov + sp_W.pattern + sp_W.streak > 0

C20_At(h, models, s) ==
  C20_Is(C20_Term(sp_Prepared(h), sp_W, s), sp_W.pattern,
         sp_W.slot + sp_W.markov + sp_W.pattern + sp_W.streak,
         IF C20_Seen(h) THEN models.patternProbs[h[Len(h)].games][s]
         ELSE C20_SlotWithGlobal(models, s))

C20_PatternFallback ==
  C20_Applies
    => \A models \in {sp_ModelsTable[sp_Games(sp_history)]} :
         \A s \in Slots : C20_At(sp_history, models, s)

C20_Witness ==
  /\ C20_Applies
  /\ sp_out.cmd = "add" /\ sp_out.shown.kind = "pred"
  /\ Len(sp_history) >= 2 /\ ~C20_Seen(sp_history)
  /\ sp_W.pattern > 0
  /\ C20_At(sp_history, sp_ModelsTable[sp_Games(sp_history)], 1)

C20_WitnessSeen ==
  /\ C20_Applies
  /\ sp_out.cmd = "add" /\ sp_out.shown.kind = "pred"
  /\ C20_Seen(sp_history)
  /\ sp_W.pattern > 0


(* C21: the accuracy accumulators of the live loops. In every state         *)
(* 0 <= correctPred <= totalPred, the window holds min(totalPred,           *)
(* RECENT_WINDOW) booleans and no more trues than correctPred; in every     *)
(* step totalPred does not decrease, and a step that scores a prediction    *)
(* adds one to totalPred, adds the correctness value to correctPred and     *)
(* makes the window the last RECENT_WINDOW values of the old window         *)
(* followed by the new value; any other step leaves the three alone.        *)
C21_LastOf(seq, w) == IF Len(seq) > w THEN SubSeq(seq, Len(seq) - w + 1, Len(seq)) ELSE seq

C21_Bounds(total, correct, recent, w) ==
  /\ 0 <= correct /\ correct <= total
  /\ Len(recent) = (IF total < w THEN total ELSE w)
  /\ \A i \in 1..Len(recent) : recent[i] \in BOOLEAN
  /\ Cardinality({i \in 1..Len(recent) : recent[i]}) <= correct

C21_IvStep ==
  /\ iv_totalPred' >= iv_totalPred
  /\ \/ UNCHANGED <<iv_totalPred, iv_correctPred, iv_recent>>
     \/ \E ok \in BOOLEAN :
          /\ iv_totalPred' = iv_totalPred + 1
          /\ iv_correctPred' = iv_correctPred + (IF ok THEN 1 ELSE 0)
          /\ iv_recent' = C21_LastOf(Append(iv_recent, ok), iv_RECENT_WINDOW)

C21_RbStep ==
  /\ rb_totalPred' >= rb_totalPred
  /\ \/ UNCHANGED <<rb_totalPred, rb_correctPred, rb_recent>>
     \/ \E ok \in BOOLEAN :
          /\ rb_totalPred' = rb_totalPred + 1
          /\ rb_correctPred' = rb_correctPred + (IF ok THEN 1 ELSE 0)
          /\ rb_recent' = C21_LastOf(Append(rb_recent, ok), rb_RECENT_WINDOW)

C22_Score(history, w) == walkForwardEvaluate(history, <<w>>, sp_DefaultWeights).slotAccuracy

C22_Scores ==
  Eager([g \in {h \in sp_GameHistories : Len(h) >= 3} |->
    Eager([k \in DOMAIN sp_Grid |-> C22_Score(sp_AsHistory(g), sp_Grid[k])])])

C22_GridOk ==
  \A k \in DOMAIN sp_Grid :
    /\ sp_Grid[k].undef = {}
    /\ sp_Grid[k].d > 0
    /\ \A f \in {"slot", "markov", "pattern", "streak"} : sp_Grid[k][f] >= 0
    /\ sp_Grid[k].slot + sp_Grid[k].markov + sp_Grid[k].pattern + sp_Grid[k].streak = sp_Grid[k].d

C22_Tuned ==
  (sp_out.cmd = "tune" /\ Len(sp_history) >= 3) =>
    /\ sp_out.shown.kind = "tuned"
    /\ sp_W = sp_out.shown.weights
    /\ \E k \in DOMAIN sp_Grid :
         /\ sp_out.shown.weights = sp_Grid[k]
         /\ sp_out.shown.score = C22_Scores[sp_Games(sp_history)][k]
    /\ \A k \in DOMAIN sp_Grid :
         ~RatLt(sp_out.shown.score, C22_Scores[sp_Games(sp_history)][k])

C22_Null ==
  (sp_out'.cmd = "tune" /\ Len(sp_history) < 3) =>
    /\ sp_out'.shown = sp_Msg("Not enough history (need at least 3 rounds).")
    /\ UNCHANGED <<sp_W, sp_history, sp_file, sp_wfile>>

C22_TuneIsBest == [](C22_GridOk /\ C22_Tuned) /\ [][C22_Null]_vars

(* tune has picked a combination that is not the first of the grid and beats it *)
C22_Witness ==
  /\ sp_out.cmd = "tune" /\ Len(sp_history) >= 3
  /\ sp_out.shown.weights # sp_Grid[1]
  /\ RatLt(C22_Scores[sp_Games(sp_history)][1], sp_out.shown.score)

(* tune was asked for on a history of fewer than 3 rounds *)
C22_WitnessNull ==
  /\ sp_out.cmd = "tune" /\ Len(sp_history) \in 1..2
  /\ sp_out.shown = sp_Msg("Not enough history (need at least 3 rounds).")


(* C23: evaluate and tune taken one loop pass at a time. A step taken while  *)
(* the handler is in walkForwardEvaluate or coarseTune, the step that enters *)
(* the loop and the step that leaves it included, leaves the history, the    *)
(* history file and the weights file as they are; the active weights change  *)
(* only in the step in which coarseTune has returned and tune applies the    *)
(* best weights. A kill between two steps leaves both files as they are.     *)
C23_InLoop == sp_job # sp_Idle \/ sp_job' # sp_Idle

C23_Killed == sp_running /\ ~sp_running'

C23_Step ==
  (C23_InLoop /\ ~C23_Killed) =>
    /\ UNCHANGED <<sp_history, sp_file, sp_wfile>>
    /\ sp_W' # sp_W => (sp_job.at = "tune" /\ sp_job.k = Len(sp_Grid) + 1 /\ sp_job' = sp_Idle)

C23_Kill == (C23_InLoop /\ C23_Killed) => UNCHANGED <<sp_file, sp_wfile>>

C23_InterruptLeavesAll == [][C23_Step /\ C23_Kill]_vars

(* tune killed at a grid point where the best so far is not the active weights *)
C23_Witness ==
  /\ sp_out.cmd = "interrupt"
  /\ sp_out.shown.job.at = "tune"
  /\ sp_out.shown.job.k \in 2..Len(sp_Grid)
  /\ sp_out.shown.job.best # <<>>
  /\ sp_file.exists

(* evaluate killed between two rounds *)
C23_WitnessEvaluate ==
  /\ sp_out.cmd = "interrupt"
  /\ sp_out.shown.job.at = "evaluate"
  /\ sp_out.shown.job.i = 1


(* C24: the result of walkForwardEvaluate that evaluate prints. rounds is    *)
(* max(0, length - 1); 0 <= correctRounds <= rounds; the result carries      *)
(* roundAccuracy = correctRounds/rounds and slotAccuracy = correct slots /   *)
(* (K * rounds), both 0 when no round was tested; K * correctRounds <=       *)
(* correct slots <= K * rounds, that is roundAccuracy <= slotAccuracy <= 1;  *)
(* a round is counted correct only when the picks from the rounds before it  *)
(* equal it in every slot.                                                   *)
C24_RatEq(a, b) == a.n * b.d = b.n * a.d

C24_RoundsCorrect(history, W) ==
  {i \in 1..(Len(history) - 1) :
     \A s \in Slots :
       sp_wfePredict(SubSeq(history, 1, i), <<>>, W).picks[s] = history[i + 1].games[s]}

C24_Counts(res, history, W) ==
  /\ res.rounds = (IF Len(history) > 1 THEN Len(history) - 1 ELSE 0)
  /\ 0 <= res.correctRounds /\ res.correctRounds <= res.rounds
  /\ res.correctRounds = Cardinality(C24_RoundsCorrect(history, W))
  /\ ~RatLt(res.slotAccuracy, res.roundAccuracy)
  /\ ~RatLt(Rat(1, 1), res.slotAccuracy)
  /\ res.rounds = 0 => C24_RatEq(res.slotAccuracy, Rat(0, 1))

C24_Carried(res) ==
  /\ res.hasRoundAccuracy
  /\ C24_RatEq(res.roundAccuracy,
               IF res.rounds > 0 THEN Rat(res.correctRounds, res.rounds) ELSE Rat(0, 1))

C24_EvaluateResult ==
  (sp_out.cmd = "evaluate" /\ sp_job = sp_Idle) =>
    /\ C24_Counts(sp_out.shown.res, sp_history, sp_W)
    /\ C24_Carried(sp_out.shown.res)


(* C25: one producer in the live loop of iv-redblack-advanced.cjs, whatever  *)
(* commands are typed. Only the loop of the first scrape command appends to  *)
(* the history, and a stored pick is scored by the loop that stored it: no   *)
(* other loop appends or updates lastPick, totalPred, correctPred and        *)
(* recentPredictions between two passes of a loop.                           *)
C25_Appends == Len(loadHistory(iv_file')) > Len(loadHistory(iv_file))

C25_OneAppender == (iv_out'.cmd = "pass" /\ C25_Appends) => iv_out'.loop = 1

C25_OwnPickScored ==
  (iv_out.cmd = "pass" /\ iv_out.shown.kind = "pred" /\ iv_totalPred' = iv_totalPred + 1)
    => iv_out'.loop = iv_out.loop

C25_OneProducer == [][C25_OneAppender /\ C25_OwnPickScored]_vars


(* C26: outcomesList of redblack_predictor_fixed.cjs. It never holds more    *)
(* than 1000 entries. The load makes it a suffix of the array in the file,   *)
(* in the file's order; a persisted observation makes it the old list        *)
(* followed by the observation, without the oldest entry exactly when that   *)
(* would be more than 1000 entries. So it is always a contiguous suffix, in  *)
(* order, of the outcomes loaded and then observed.                          *)
C26_IsSuffix(s, t) == Len(s) <= Len(t) /\ s = SubSeq(t, Len(t) - Len(s) + 1, Len(t))

C26_Load ==
  (~rb_started /\ rb_started' /\ rb_outcomesList' # rb_outcomesList) =>
    \E r \in {JSONparse(rb_file.text)} :
      r.ok /\ r.kind = "[" /\ C26_IsSuffix(rb_outcomesList', r.val)

C26_Persist ==
  (rb_started /\ rb_seen' = rb_seen + 1) =>
    \E o \in rb_O :
      rb_outcomesList' = IF Len(rb_outcomesList) = rb_KeepCap
                         THEN Tail(rb_outcomesList) \o <<o>>
                         ELSE rb_outcomesList \o <<o>>

C26_BoundedSuffix ==
  /\ [](Len(rb_outcomesList) <= rb_KeepCap)
  /\ [][C26_Load /\ C26_Persist]_vars

(* three outcomes persisted into a full list: the three oldest are gone *)
C26_Witness ==
  /\ rb_seen = 3
  /\ Len(rb_outcomesList) = rb_KeepCap
  /\ \A i \in 1..(rb_KeepCap - 3) : rb_outcomesList[i] = rb_Listed(rb_KeepCap)[i + 3]

(* a file of more than 500 outcomes has been loaded *)
C26_WitnessLoad ==
  /\ rb_started /\ rb_seen = 0
  /\ Len(rb_outcomesList) = rb_LoadCap
  /\ rb_file = File(StringifyStrings(rb_Listed(rb_LoadCap + 1)))


(* C27: in the live loops a step that scores the stored pick (totalPred goes *)
(* up by one) adds exactly one entry to the history, and the pick is scored  *)
(* against that entry: correctPred goes up exactly when the stored pick is   *)
(* the outcome of the new last entry.                                        *)
C27_IvScored ==
  (iv_totalPred' = iv_totalPred + 1) =>
    \E h \in {loadHistory(iv_file)}, g \in {loadHistory(iv_file')} :
      /\ Len(g) = Len(h) + 1
      /\ SubSeq(g, 1, Len(h)) = h
      /\ (iv_correctPred' = iv_correctPred + 1) <=> (iv_lastPick = g[Len(g)].outcome)

C27_RbScored ==
  (rb_totalPred' = rb_totalPred + 1) =>
    /\ Len(rb_outcomesList') = Len(rb_outcomesList) + 1
    /\ SubSeq(rb_outcomesList', 1, Len(rb_outcomesList)) = rb_outcomesList
    /\ (rb_correctPred' = rb_correctPred + 1)
         <=> (rb_prevPrediction = rb_outcomesList'[Len(rb_outcomesList')])

C27_ScoredOncePerEntry == [][C27_IvScored /\ C27_RbScored]_vars


(* C28: add, undo and reset of sportypredictor.cjs, when they complete. An   *)
(* add leaves the history it found followed by the new round and leaves the  *)
(* weights alone; an undo that follows it leaves the history the add found,  *)
(* the history file holding exactly that history, and the weights alone, so  *)
(* that predict shows what it showed before the add; a reset leaves the      *)
(* empty history, written to the file, and the weights alone, so that        *)
(* predict shows what it shows on a fresh empty history with these weights.  *)
(* What predict shows is computed from the history and the weights alone.    *)
C28_Front(history) == SubSeq(history, 1, Len(history) - 1)

C28_Added == sp_out.cmd = "add" /\ sp_out.shown.kind = "pred"

C28_AddStep ==
  (sp_running /\ sp_out'.cmd = "add" /\ sp_out'.shown.kind = "pred"
     /\ <<sp_history, sp_out>> # <<sp_history', sp_out'>>) =>
    /\ sp_history' # <<>>
    /\ C28_Front(sp_history') = sp_history
    /\ sp_history'[Len(sp_history')].games = parseRoundInput(sp_out'.arg).games
    /\ sp_W' = sp_W

C28_UndoStep ==
  (C28_Added /\ sp_out'.cmd = "undo" /\ sp_out'.shown = sp_Msg("Removed last round.")) =>
    /\ sp_history' = C28_Front(sp_history)
    /\ sp_file' = File(sp_stringifyHistory(C28_Front(sp_history)))
    /\ loadHistory(sp_file') = C28_Front(sp_history)
    /\ sp_W' = sp_W
    /\ sp_Prediction(sp_history', sp_W') = sp_Prediction(C28_Front(sp_history), sp_W)

C28_ResetStep ==
  (sp_out'.cmd = "reset" /\ sp_out'.shown = sp_Msg("Cleared history.")) =>
    /\ sp_history' = <<>>
    /\ loadHistory(sp_file') = <<>>
    /\ sp_W' = sp_W
    /\ sp_Prediction(sp_history', sp_W') = sp_Prediction(<<>>, sp_W)

C28_Shown ==
  sp_out.cmd = "predict" => sp_out.shown = sp_Prediction(sp_history, sp_W)

C28_AddUndoRestores == []C28_Shown /\ [][C28_AddStep /\ C28_UndoStep /\ C28_ResetStep]_vars

(* an undo has taken back the third round of a history *)
C28_Witness ==
  /\ sp_out.cmd = "undo" /\ sp_out.shown = sp_Msg("Removed last round.")
  /\ Len(sp_history) = 2
  /\ sp_history[1].games # sp_history[2].games
  /\ sp_file = File(sp_stringifyHistory(sp_history))


(* C29: the entries a history file holds are kept by every later write, also *)
(* when the file cannot be parsed. The entries of a file that ends before    *)
(* its closing bracket are those of the text with the bracket put back; a    *)
(* step that changes the file leaves a file whose history starts with them.  *)
C29_Stored(file) ==
  IF ~file.exists THEN <<>>
  ELSE IF JSONparse(file.text).ok THEN loadHistory(file)
  ELSE loadHistory(File(file.text \o <<TokCloseArr>>))

C29_StartsWith(h, g) == Len(g) <= Len(h) /\ SubSeq(h, 1, Len(g)) = g

C29_Kept(file, after) ==
  (after # file /\ C29_Stored(file) # <<>>) =>
    C29_StartsWith(loadHistory(after), C29_Stored(file))

C29_StoredRoundsKept == [][C29_Kept(sp_file, sp_file') /\ C29_Kept(iv_file, iv_file')]_vars

============================================================================
